---- MODULE Spec2Model ----
(***************************************************************************)
(* A model of backend/services/modpack_service.py: the CurseForge client   *)
(* ModpackService with its response cache (CacheEntry), its sliding-window *)
(* RateLimiter, the request pipeline _make_request and the public          *)
(* operations built on it.                                                 *)
(*                                                                         *)
(* Time is the wall clock in whole seconds (time.time() / datetime.now()), *)
(* non-decreasing.  Python values are modelled by TLA+ values of one type  *)
(* per field; None is a sentinel of that type.                             *)
(*                                                                         *)
(* Specifications:                                                         *)
(*   Spec         concurrent operations of one ModpackService over time    *)
(*   SpecAnswers  each operation against every answer of upstream          *)
(*   SpecLimiter  RateLimiter used directly by concurrent callers          *)
(*   SpecKey      _get_cache_key over dicts in every insertion order       *)
(*   SpecCache    the cache helpers and CacheEntry over time               *)
(*   SpecStats    the cache with get_cache_stats and clear_cache           *)
(*   SpecParse    the response normalisers over raw upstream records       *)
(*   SpecServer   ServerInstance.validate (backend/models/server.py)       *)
(*   SpecLimiterFair  RateLimiter with sleeps that end and a clock that    *)
(*                can be set back                                          *)
(*   SpecRequestKey   _make_request's cache over pairs of search calls     *)
(*   SpecSession  SpecAnswers from every kind of api_key                   *)
(*   SpecMigrations   MigrationManager (backend/migrations.py)             *)
(***************************************************************************)
EXTENDS Integers, Sequences, FiniteSets, TLC

VARIABLES
    now,             \* the clock read by time.time() and datetime.now()
    max_requests,    \* RateLimiter.max_requests
    window_seconds,  \* RateLimiter.window_seconds
    requests,        \* RateLimiter.requests: list of recorded timestamps
    pc,              \* per task: where the coroutine is suspended
    frame,           \* per task: the locals of the suspended coroutine
    hist,            \* history: one record per acquire() call, in call order
    overlapped,      \* history: some acquire() began while another was suspended
    cache,           \* ModpackService.cache: cache key -> CacheEntry
    putlog,          \* history: cache key -> the last _cache_data made for it
    got,             \* history: the last direct _get_cached_data lookup
    k_endpoint,      \* SpecKey: the endpoint given to _get_cache_key
    k_params,        \* SpecKey: the params dict, as its items in insertion order
    k_key,           \* SpecKey: the key computed for k_params as it stands
    k_first,         \* SpecKey: the key computed for the first insertion order
    api_key,         \* ModpackService.api_key
    client,          \* ModpackService.client: "None", "open" or "closed"
    call,            \* per task: the public operation it runs and its arguments
    last,            \* history: the operation that ended last, and how
    lastStore,       \* history: cache key -> the call that last stored under it
    ncalls,          \* history: operations begun so far
    fn,              \* the pure function under application
    arg,             \* its argument
    out,             \* what the application ended in
    migrations,      \* MigrationManager.migrations: the registered migrations
    schema_migrations,  \* the versions in the table schema_migrations
    mig_last         \* history: the last migrate_up or migrate_down run: the table
                     \* before it, the up() or down() calls it made, what it
                     \* returned, how many migrations were registered

limiterVars == <<max_requests, window_seconds, requests>>
taskVars == <<pc, frame>>
histVars == <<hist, overlapped>>
cacheVars == <<cache, putlog, got>>
keyVars == <<k_endpoint, k_params, k_key, k_first>>
svcVars == <<api_key, client, call, last, lastStore, ncalls>>
pureVars == <<fn, arg, out>>
migVars == <<migrations, schema_migrations, mig_last>>
vars == <<now, limiterVars, taskVars, histVars, cacheVars, keyVars, svcVars, pureVars, migVars>>

(***************************************************************************)
(* Bounds of the model.                                                    *)
(***************************************************************************)
Tasks == {1, 2}
MaxN == 2          \* largest max_requests a limiter is constructed with
MaxW == 3          \* largest window_seconds a limiter is constructed with
LimMaxTime == 5    \* the clock stops advancing here (SpecLimiter)
LimMaxCalls == 4   \* acquire() calls per behaviour (SpecLimiter)

\* What an operation ended in (Return, Raise below), the body {} of a
\* response, an answer of upstream, and their "none yet" values.
NoRes == [kind |-> "none", value |-> <<>>, exc |-> "", cause |-> ""]
MissingBody == [shape |-> "missing", items |-> <<>>]
NoAnswer == [kind |-> "none", status |-> 0, body |-> MissingBody, exc |-> ""]
NoExpect == [some |-> FALSE, res |-> NoRes]

\* History of one operation: the requests it sent (nreq), the admissions it
\* recorded (nadm), whether it was served from the cache (hit), whether a
\* credential was configured (cred), the path that produced a search result,
\* the exception the direct attempt raised (err), the exception _make_request
\* raised (pipe), the answer of upstream, what an identical earlier call
\* returned (expect), and the state of the session when self.client.get or
\* self.client.head was called on it (sess, "" if it was not called), and
\* how it follows the operation that ended before it (prev: "none" if there
\* was none, "same" if that was the same call, else "other").
NoStat == [nreq |-> 0, nadm |-> 0, hit |-> FALSE, cred |-> FALSE, path |-> "",
           err |-> "", pipe |-> "", answer |-> NoAnswer, expect |-> NoExpect,
           sess |-> "", prev |-> "none"]
NoFrame == [acq_now |-> 0, wait_time |-> 0, h |-> 0, cache_key |-> "", st |-> NoStat]

(***************************************************************************)
(* Python strings.  A str is a TLA+ string; its characters are compared by *)
(* code point, as Python compares them.                                    *)
(***************************************************************************)
\* The characters the model uses, in code point order.
Alphabet == " &-./0123456789:=?ABCDEFGHIJKLMNOPQRSTUVWXYZ_abcdefghijklmnopqrstuvwxyz"
Upper == "ABCDEFGHIJKLMNOPQRSTUVWXYZ"
Lower == "abcdefghijklmnopqrstuvwxyz"

IndexIn(c, s) == IF \E i \in 1..Len(s) : SubSeq(s, i, i) = c
                 THEN CHOOSE i \in 1..Len(s) : SubSeq(s, i, i) = c
                 ELSE 0

\* ord(c)
Ord(c) == IndexIn(c, Alphabet)

\* a < b on str
RECURSIVE StrLess(_, _)
StrLess(a, b) ==
    IF b = "" THEN FALSE
    ELSE IF a = "" THEN TRUE
    ELSE IF Head(a) = Head(b) THEN StrLess(Tail(a), Tail(b))
    ELSE Ord(Head(a)) < Ord(Head(b))

\* sep.join(parts)
RECURSIVE Join(_, _)
Join(sep, parts) ==
    IF Len(parts) = 0 THEN ""
    ELSE IF Len(parts) = 1 THEN parts[1]
    ELSE parts[1] \o sep \o Join(sep, Tail(parts))

\* f"{v}" of a dict value: an int is written in decimal, a str as it is.
IntVal(n) == [int |-> n]
StrVal(x) == [str |-> x]
Format(v) == IF "int" \in DOMAIN v THEN ToString(v.int) ELSE v.str

(***************************************************************************)
(* ModpackService._get_cache_key.  A params dict is the sequence of its    *)
(* items <<name, value>> in insertion order, the names distinct.           *)
(***************************************************************************)
\* sorted(params.items()): tuples compare by name first, and the names of a
\* dict differ, so the values are never compared.  Insertion into the
\* sorted prefix, as a stable sort does.
RECURSIVE InsertItem(_, _)
InsertItem(item, sorted) ==
    IF Len(sorted) = 0 THEN <<item>>
    ELSE IF StrLess(item[1], sorted[1][1]) THEN <<item>> \o sorted
    ELSE <<sorted[1]>> \o InsertItem(item, Tail(sorted))

RECURSIVE SortedItemsFrom(_, _)
SortedItemsFrom(items, acc) ==
    IF Len(items) = 0 THEN acc
    ELSE SortedItemsFrom(Tail(items), InsertItem(items[1], acc))

SortedItemsMutant(items) == items
SortedItems(items) == SortedItemsFrom(items, <<>>)

_get_cache_key(endpoint, params) ==
    LET items == SortedItems(params)
        param_str == Join("&", [i \in 1..Len(items) |->
                                  items[i][1] \o "=" \o Format(items[i][2])])
    IN  endpoint \o "?" \o param_str

(***************************************************************************)
(* CacheEntry and the cache of ModpackService.  The cache is a function    *)
(* from the keys it holds to their entries.  A payload is a response dict; *)
(* NoData stands for the None that _get_cached_data returns for "absent".  *)
(***************************************************************************)
CACHE_TTL == 300   \* _cache_data(cache_key, data, ttl_seconds=300)

NoData == [none |-> TRUE]

\* CacheEntry.__init__, at time t
CacheEntryMutant(data, ttl_seconds, t) == [data |-> data, expires_at |-> t]
CacheEntry(data, ttl_seconds, t) == [data |-> data, expires_at |-> t + ttl_seconds]

\* CacheEntry.is_expired, at time t
is_expiredMutant(entry, t) == t > entry.expires_at + 1
is_expired(entry, t) == t > entry.expires_at

\* _get_cached_data: the value it returns, and the cache it leaves.
_get_cached_data(c, cache_key, t) ==
    IF cache_key \in DOMAIN c /\ ~is_expired(c[cache_key], t)
    THEN c[cache_key].data
    ELSE NoData

CacheAfterGet(c, cache_key, t) ==
    IF cache_key \in DOMAIN c /\ is_expired(c[cache_key], t)
    THEN [k \in DOMAIN c \ {cache_key} |-> c[k]]
    ELSE c

\* _cache_data
_cache_data(c, cache_key, data, ttl_seconds, t) ==
    [k \in DOMAIN c \cup {cache_key} |->
        IF k = cache_key THEN CacheEntry(data, ttl_seconds, t) ELSE c[k]]

EmptyCache == [k \in {} |-> NoData]

\* get_cache_stats, at time t
get_cache_statsMutant(c, t) ==
    LET expired_entries == Cardinality({k \in DOMAIN c : is_expired(c[k], t)}) IN
    [total_entries |-> Cardinality(DOMAIN c),
     active_entries |-> Cardinality(DOMAIN c),
     expired_entries |-> expired_entries]
get_cache_stats(c, t) ==
    LET total_entries == Cardinality(DOMAIN c)
        expired_entries == Cardinality({k \in DOMAIN c : is_expired(c[k], t)})
    IN  [total_entries |-> total_entries,
         active_entries |-> total_entries - expired_entries,
         expired_entries |-> expired_entries]
NoPut == [data |-> NoData, at |-> -1, ttl |-> 0]
NoGot == [key |-> "", at |-> -1, value |-> NoData, put |-> NoPut,
          held_before |-> FALSE, held_after |-> FALSE]

CacheUnused == cache = EmptyCache /\ putlog = EmptyCache /\ got = NoGot
KeyUnused == k_endpoint = "" /\ k_params = <<>> /\ k_key = "" /\ k_first = ""
\* No migrate_up or migrate_down has run.
NoRun == [op |-> "", target |-> "<None>", ret |-> TRUE, calls |-> <<>>, before |-> {},
          registered |-> 0]
MigrationsUnused == migrations = <<>> /\ schema_migrations = {} /\ mig_last = NoRun
NoOut == [done |-> FALSE, exc |-> "", value |-> <<>>]
PureUnused == fn = "" /\ arg = <<>> /\ out = NoOut
LimiterUnused ==
    /\ max_requests = 0 /\ window_seconds = 0 /\ requests = <<>>
    /\ pc = [t \in Tasks |-> "idle"] /\ frame = [t \in Tasks |-> NoFrame]
    /\ hist = <<>> /\ overlapped = FALSE

(***************************************************************************)
(* RateLimiter.acquire                                                     *)
(***************************************************************************)
\* min(self.requests)
RECURSIVE Min(_)
Min(s) == IF Len(s) = 1 THEN s[1]
          ELSE LET m == Min(Tail(s)) IN IF s[1] <= m THEN s[1] ELSE m

\* [req_time for req_time in self.requests if now - req_time < self.window_seconds]
Prune(reqs, t, w) == SelectSeq(reqs, LAMBDA req_time : t - req_time < w)

\* wait_time = self.window_seconds - (now - oldest_request)
WaitTimeMutant(reqs, t, w) == w - (t - Min(reqs)) + 1
WaitTime(reqs, t, w) == w - (t - Min(reqs))

\* The suspension acquire() asks for when called at time t: 0 when it does
\* not reach asyncio.sleep.
Suspension(reqs, t, n, w) ==
    LET kept == Prune(reqs, t, w) IN
    IF Len(kept) >= n
    THEN (IF WaitTime(kept, t, w) > 0 THEN WaitTime(kept, t, w) ELSE 0)
    ELSE 0

\* self.requests.append(now)
AdmitMutant(reqs, at) == Append(Append(reqs, at), at)
Admit(reqs, at) == Append(reqs, at)

\* acquire() called directly by task t, up to its return or its suspension in
\* asyncio.sleep.
Acquire(t) ==
    /\ pc[t] = "idle"
    /\ Len(hist) < LimMaxCalls
    /\ LET kept == Prune(requests, now, window_seconds)
           wait == Suspension(requests, now, max_requests, window_seconds)
           h == Len(hist) + 1
       IN  /\ overlapped' = (overlapped \/ \E u \in Tasks : pc[u] = "sleep")
           /\ IF wait > 0
              THEN /\ requests' = kept
                   /\ pc' = [pc EXCEPT ![t] = "sleep"]
                   /\ frame' = [frame EXCEPT ![t] =
                                  [NoFrame EXCEPT !.acq_now = now, !.wait_time = wait,
                                                  !.h = h]]
                   /\ hist' = Append(hist, [start |-> now, wait |-> wait,
                                            admitted |-> FALSE, admit |-> 0,
                                            len |-> 0])
              ELSE /\ requests' = Admit(kept, now)
                   /\ hist' = Append(hist, [start |-> now, wait |-> 0,
                                            admitted |-> TRUE, admit |-> now,
                                            len |-> Len(kept) + 1])
                   /\ UNCHANGED <<pc, frame>>
    /\ UNCHANGED <<now, max_requests, window_seconds, cacheVars, keyVars, migVars, pureVars, svcVars>>

\* asyncio.sleep(wait_time) is over: self.requests.append(now) with the
\* value of now read before the sleep, and acquire() returns.
AcquireWake(t) ==
    /\ pc[t] = "sleep"
    /\ now >= frame[t].acq_now + frame[t].wait_time
    /\ requests' = Admit(requests, frame[t].acq_now)
    /\ hist' = [hist EXCEPT ![frame[t].h].admitted = TRUE,
                            ![frame[t].h].admit = now,
                            ![frame[t].h].len = Len(requests) + 1]
    /\ pc' = [pc EXCEPT ![t] = "idle"]
    /\ frame' = [frame EXCEPT ![t] = NoFrame]
    /\ UNCHANGED <<now, max_requests, window_seconds, overlapped, cacheVars, keyVars, migVars, pureVars, svcVars>>

\* One second passes.
LimTick ==
    /\ now < LimMaxTime
    /\ now' = now + 1
    /\ UNCHANGED <<limiterVars, taskVars, histVars, cacheVars, keyVars, migVars, pureVars, svcVars>>

(***************************************************************************)
(* datetime.fromisoformat(s.replace("Z", "+00:00")).  The forms parsed are *)
(* YYYY-MM-DD, YYYY-MM-DDTHH:MM:SS and YYYY-MM-DDTHH:MM:SS+HH:MM; any      *)
(* other string raises ValueError.  The value is the instant in seconds    *)
(* and whether the datetime carries an offset (is "aware").                *)
(***************************************************************************)
Digits == "0123456789"
Char(s, i) == SubSeq(s, i, i)
IsDigit(c) == IndexIn(c, Digits) > 0

AllDigits(s) == \A i \in 1..Len(s) : IsDigit(Char(s, i))

\* int(s) of a string of digits
RECURSIVE ToInt(_)
ToInt(s) == IF s = "" THEN 0
            ELSE 10 * ToInt(SubSeq(s, 1, Len(s) - 1)) + (IndexIn(Char(s, Len(s)), Digits) - 1)

\* s.replace("Z", "+00:00")
RECURSIVE ReplaceZ(_)
ReplaceZ(s) ==
    IF s = "" THEN ""
    ELSE IF Len(s) = 1 THEN (IF s = "Z" THEN "+00:00" ELSE s)
    ELSE LET mid == Len(s) \div 2
         IN  ReplaceZ(SubSeq(s, 1, mid)) \o ReplaceZ(SubSeq(s, mid + 1, Len(s)))

IsLeap(y) == (y % 4 = 0 /\ y % 100 # 0) \/ y % 400 = 0
DaysInMonth(y, m) ==
    IF m = 2 THEN (IF IsLeap(y) THEN 29 ELSE 28)
    ELSE IF m \in {4, 6, 9, 11} THEN 30 ELSE 31

RECURSIVE DaysBeforeMonth(_, _)
DaysBeforeMonth(y, m) ==
    IF m = 1 THEN 0 ELSE DaysBeforeMonth(y, m - 1) + DaysInMonth(y, m - 1)

\* date.toordinal()
Ordinal(y, m, d) ==
    LET p == y - 1 IN
    p * 365 + (p \div 4) - (p \div 100) + (p \div 400) + DaysBeforeMonth(y, m) + d

DateOk(s) ==
    /\ AllDigits(SubSeq(s, 1, 4)) /\ Char(s, 5) = "-"
    /\ AllDigits(SubSeq(s, 6, 7)) /\ Char(s, 8) = "-"
    /\ AllDigits(SubSeq(s, 9, 10))
    /\ ToInt(SubSeq(s, 1, 4)) >= 1
    /\ ToInt(SubSeq(s, 6, 7)) \in 1..12
    /\ ToInt(SubSeq(s, 9, 10)) \in
           1..DaysInMonth(ToInt(SubSeq(s, 1, 4)), ToInt(SubSeq(s, 6, 7)))

TimeOk(s) ==
    /\ AllDigits(SubSeq(s, 12, 13)) /\ Char(s, 14) = ":"
    /\ AllDigits(SubSeq(s, 15, 16)) /\ Char(s, 17) = ":"
    /\ AllDigits(SubSeq(s, 18, 19))
    /\ ToInt(SubSeq(s, 12, 13)) < 24
    /\ ToInt(SubSeq(s, 15, 16)) < 60
    /\ ToInt(SubSeq(s, 18, 19)) < 60

OffsetOk(s) ==
    /\ Char(s, 20) \in {"+", "-"}
    /\ AllDigits(SubSeq(s, 21, 22)) /\ Char(s, 23) = ":"
    /\ AllDigits(SubSeq(s, 24, 25))
    /\ ToInt(SubSeq(s, 21, 22)) < 24
    /\ ToInt(SubSeq(s, 24, 25)) < 60

IsoValid(s) ==
    \/ Len(s) = 10 /\ DateOk(s)
    \/ Len(s) = 19 /\ DateOk(s) /\ TimeOk(s)
    \/ Len(s) = 25 /\ DateOk(s) /\ TimeOk(s) /\ OffsetOk(s)

\* The instant a parsed string denotes: the day (date.toordinal()) and the
\* second of that day, in UTC when the string carries an offset.
IsoSeconds(s) ==
    LET secs == IF Len(s) >= 19
                THEN 3600 * ToInt(SubSeq(s, 12, 13)) + 60 * ToInt(SubSeq(s, 15, 16))
                     + ToInt(SubSeq(s, 18, 19))
                ELSE 0
        off == IF Len(s) = 25
               THEN (IF Char(s, 20) = "-" THEN -1 ELSE 1)
                    * (3600 * ToInt(SubSeq(s, 21, 22)) + 60 * ToInt(SubSeq(s, 24, 25)))
               ELSE 0
    IN  secs - off

IsoDay(s) ==
    Ordinal(ToInt(SubSeq(s, 1, 4)), ToInt(SubSeq(s, 6, 7)), ToInt(SubSeq(s, 9, 10)))
        + (IsoSeconds(s) \div 86400)

NoDate == [none |-> TRUE, day |-> 0, sec |-> 0, aware |-> FALSE]

\* the parsed datetime; call only on a string that parses
fromisoformat(s0) ==
    LET s == ReplaceZ(s0) IN
    [none |-> FALSE, day |-> IsoDay(s), sec |-> IsoSeconds(s) % 86400,
     aware |-> Len(s) = 25]

\* a > b on datetimes
Later(a, b) == a.day > b.day \/ (a.day = b.day /\ a.sec > b.sec)

\* the parse raises ValueError
IsoRaises(s0) == ~IsoValid(ReplaceZ(s0))

(***************************************************************************)
(* Response normalisation.  A raw upstream record is a dict: a TLA+ record *)
(* holding the fields that are present.                                    *)
(***************************************************************************)
None == "<None>"   \* the None of an Optional[str]

\* An item of a JSON list that is not an object (null): no dict of the model
\* holds the key "nondict".
NullItem == [nondict |-> "null"]
IsDict(x) == "nondict" \notin DOMAIN x

\* The except clause around the parse of one item logs
\* {mod_data.get('id', 'unknown')}: on an item that is not a dict the log
\* call itself raises AttributeError, inside the handler.
SkipLogRaises(items) == \E i \in 1..Len(items) : ~IsDict(items[i])

\* d.get(k, default)
Get(d, k, default) == IF k \in DOMAIN d THEN d[k] ELSE default

\* [x.get("name", "") for x in d.get(k, [])]
Names(d, k) ==
    LET xs == Get(d, k, <<>>) IN [i \in 1..Len(xs) |-> Get(xs[i], "name", "")]

\* datetime.fromisoformat(...) if mod_data.get("dateModified") else None
LastUpdated(mod_data) ==
    IF Get(mod_data, "dateModified", "") # ""
    THEN fromisoformat(mod_data.dateModified)
    ELSE NoDate

\* The exception _parse_modpack_search_result raises on mod_data, "" if none.
SearchParseError(mod_data) ==
    IF ~IsDict(mod_data) THEN "TypeError"
    ELSE IF "id" \notin DOMAIN mod_data \/ "name" \notin DOMAIN mod_data THEN "KeyError"
    ELSE IF Get(mod_data, "dateModified", "") # "" /\ IsoRaises(mod_data.dateModified)
         THEN "ValueError"
    ELSE ""

_parse_modpack_search_result(mod_data) ==
    [id |-> mod_data.id,
     name |-> mod_data.name,
     summary |-> Get(mod_data, "summary", ""),
     download_count |-> Get(mod_data, "downloadCount", 0),
     categories |-> Names(mod_data, "categories"),
     authors |-> Names(mod_data, "authors"),
     logo_url |-> Get(Get(mod_data, "logo", [x \in {} |-> ""]), "url", None),
     last_updated |-> LastUpdated(mod_data)]

\* mod_data.get("latestFilesIndexes", [{}])[0].get(field)
LatestIndex(mod_data, field) ==
    Get(Get(mod_data, "latestFilesIndexes", <<[x \in {} |-> ""]>>)[1], field, None)

\* The exception _parse_modpack_details raises on mod_data, "" if none.
DetailsParseError(mod_data) ==
    IF SearchParseError(mod_data) # "" THEN SearchParseError(mod_data)
    ELSE IF Len(Get(mod_data, "latestFilesIndexes", <<[x \in {} |-> ""]>>)) = 0
         THEN "IndexError"
    ELSE ""

_parse_modpack_details(mod_data) ==
    [id |-> mod_data.id,
     name |-> mod_data.name,
     summary |-> Get(mod_data, "summary", ""),
     description |-> Get(mod_data, "description", ""),
     download_count |-> Get(mod_data, "downloadCount", 0),
     categories |-> Names(mod_data, "categories"),
     authors |-> Names(mod_data, "authors"),
     logo_url |-> Get(Get(mod_data, "logo", [x \in {} |-> ""]), "url", None),
     screenshots |-> LET xs == Get(mod_data, "screenshots", <<>>)
                     IN  [i \in 1..Len(xs) |-> Get(xs[i], "url", "")],
     last_updated |-> LastUpdated(mod_data),
     game_version_latest |-> LatestIndex(mod_data, "gameVersion"),
     mod_loader |-> LatestIndex(mod_data, "modLoader")]

\* The exception _parse_modpack_version raises on file_data, "" if none.
VersionParseError(file_data) ==
    IF ~IsDict(file_data) THEN "TypeError"
    ELSE IF \E k \in {"id", "displayName", "fileName", "fileDate"} : k \notin DOMAIN file_data
    THEN "KeyError"
    ELSE IF IsoRaises(file_data.fileDate) THEN "ValueError"
    ELSE ""

_parse_modpack_versionMutant(file_data) ==
    [id |-> file_data.id,
     display_name |-> file_data.displayName,
     file_name |-> file_data.fileName,
     file_date |-> fromisoformat(file_data.fileDate),
     download_url |-> Get(file_data, "downloadUrl", ""),
     game_versions |-> Get(file_data, "gameVersions", <<>>),
     mod_loader |-> Get(file_data, "modLoader", ""),
     file_size |-> Get(file_data, "fileLength", 0)]
_parse_modpack_version(file_data) ==
    [id |-> file_data.id,
     display_name |-> file_data.displayName,
     file_name |-> file_data.fileName,
     file_date |-> fromisoformat(file_data.fileDate),
     download_url |-> Get(file_data, "downloadUrl", ""),
     game_versions |-> Get(file_data, "gameVersions", <<>>),
     mod_loader |-> Get(file_data, "modLoader", None),
     file_size |-> Get(file_data, "fileLength", 0)]

\* versions.sort(key=lambda v: v.file_date, reverse=True): stable, the later
\* date first.  Comparing an aware datetime with a naive one raises TypeError.
SortRaises(versions) ==
    \E i, j \in 1..Len(versions) : versions[i].file_date.aware # versions[j].file_date.aware

RECURSIVE InsertNewestFirst(_, _)
InsertNewestFirst(v, sorted) ==
    IF Len(sorted) = 0 THEN <<v>>
    ELSE IF Later(v.file_date, sorted[1].file_date) THEN <<v>> \o sorted
    ELSE <<sorted[1]>> \o InsertNewestFirst(v, Tail(sorted))

RECURSIVE NewestFirstFrom(_, _)
NewestFirstFrom(versions, acc) ==
    IF Len(versions) = 0 THEN acc
    ELSE NewestFirstFrom(Tail(versions), InsertNewestFirst(versions[1], acc))

NewestFirstMutant(versions) == versions
NewestFirst(versions) == NewestFirstFrom(versions, <<>>)

(***************************************************************************)
(* The fallback catalog: search_fallback_modpacks and the conversion of    *)
(* its entries into search results that search_modpacks makes.             *)
(***************************************************************************)
\* c.lower()
LowerChar(c) == IF IndexIn(c, Upper) > 0
                THEN Char(Lower, IndexIn(c, Upper))
                ELSE c

\* s.lower()
RECURSIVE lower(_)
lower(s) ==
    IF s = "" THEN ""
    ELSE IF Len(s) = 1 THEN LowerChar(s)
    ELSE LET mid == Len(s) \div 2
         IN  lower(SubSeq(s, 1, mid)) \o lower(SubSeq(s, mid + 1, Len(s)))

\* sub in s
Contains(sub, s) ==
    \E i \in 1..(Len(s) - Len(sub) + 1) : SubSeq(s, i, i + Len(sub) - 1) = sub

popular_modpacks ==
    << [name |-> "All The Mods 9",
        description |-> "Kitchen sink modpack with tons of mods",
        game_version |-> "1.20.1", mod_loader |-> "Forge",
        difficulty |-> "Advanced"],
       [name |-> "FTB Skies",
        description |-> "Skyblock-style modpack with quests",
        game_version |-> "1.19.2", mod_loader |-> "Forge",
        difficulty |-> "Intermediate"],
       [name |-> "Better Minecraft",
        description |-> "Enhanced vanilla experience with performance mods",
        game_version |-> "1.20.1", mod_loader |-> "Fabric",
        difficulty |-> "Beginner"],
       [name |-> "Create: Above and Beyond",
        description |-> "Tech modpack focused on Create mod",
        game_version |-> "1.16.5", mod_loader |-> "Forge",
        difficulty |-> "Intermediate"],
       [name |-> "Enigmatica 6",
        description |-> "Expert-style kitchen sink modpack",
        game_version |-> "1.16.5", mod_loader |-> "Forge",
        difficulty |-> "Expert"] >>

\* if search_lower in pack["name"].lower() or search_lower in pack["description"].lower()
PackMatchesMutant(pack, search_term) ==
    \/ Contains(search_term, pack.name)
    \/ Contains(search_term, pack.description)
PackMatches(pack, search_term) ==
    \/ Contains(lower(search_term), lower(pack.name))
    \/ Contains(lower(search_term), lower(pack.description))

search_fallback_modpacks(search_term) ==
    IF search_term # ""
    THEN SelectSeq(popular_modpacks, LAMBDA pack : PackMatches(pack, search_term))
    ELSE popular_modpacks

FALLBACK_ID_BASE == 1000000   \* id=1000000 + i

\* fallback_results[:page_size], for page_size >= 0
TruncateMutant(xs, page_size) == xs
Truncate(xs, page_size) ==
    SubSeq(xs, 1, IF page_size < Len(xs) THEN page_size ELSE Len(xs))

\* The loop of search_modpacks that turns fallback entries into results.
FallbackResultsMutant(search_term, page_size) ==
    LET packs == Truncate(search_fallback_modpacks(search_term), page_size) IN
    [i \in 1..Len(packs) |->
        [id |-> FALLBACK_ID_BASE,
         name |-> packs[i].name,
         summary |-> packs[i].description,
         download_count |-> 0,
         categories |-> <<packs[i].difficulty>>,
         authors |-> <<"Community">>,
         logo_url |-> None,
         last_updated |-> NoDate]]
FallbackResults(search_term, page_size) ==
    LET packs == Truncate(search_fallback_modpacks(search_term), page_size) IN
    [i \in 1..Len(packs) |->
        [id |-> FALLBACK_ID_BASE + (i - 1),
         name |-> packs[i].name,
         summary |-> packs[i].description,
         download_count |-> 0,
         categories |-> <<packs[i].difficulty>>,
         authors |-> <<"Community">>,
         logo_url |-> None,
         last_updated |-> NoDate]]

(***************************************************************************)
(* Calls, requests and upstream answers.                                   *)
(***************************************************************************)
MINECRAFT_GAME_ID == 432
MODPACK_CATEGORY_ID == 4471
MAX_PAGE_SIZE == 50          \* min(page_size, 50)
SERVICE_MAX_REQUESTS == 100  \* RateLimiter(max_requests=100, window_seconds=60)
SERVICE_WINDOW == 60

SearchCall(term, filter, size) ==
    [op |-> "search", search_term |-> term, category_filter |-> filter,
     sort_field |-> "Popularity", sort_order |-> "desc", page_size |-> size,
     index |-> 0, modpack_id |-> 0, game_version |-> None,
     name |-> "", download_url |-> ""]
DetailsCall(id) ==
    [op |-> "details", search_term |-> "", category_filter |-> None,
     sort_field |-> "", sort_order |-> "", page_size |-> 0,
     index |-> 0, modpack_id |-> id, game_version |-> None,
     name |-> "", download_url |-> ""]
VersionsCall(id, version) ==
    [op |-> "versions", search_term |-> "", category_filter |-> None,
     sort_field |-> "", sort_order |-> "", page_size |-> 0,
     index |-> 0, modpack_id |-> id, game_version |-> version,
     name |-> "", download_url |-> ""]
\* validate_custom_modpack_url(url) and create_custom_modpack(name, download_url)
ValidateCall(url) ==
    [op |-> "validate", search_term |-> "", category_filter |-> None,
     sort_field |-> "", sort_order |-> "", page_size |-> 0,
     index |-> 0, modpack_id |-> 0, game_version |-> None,
     name |-> "", download_url |-> url]
CreateCall(name, url) ==
    [op |-> "create", search_term |-> "", category_filter |-> None,
     sort_field |-> "", sort_order |-> "", page_size |-> 0,
     index |-> 0, modpack_id |-> 0, game_version |-> None,
     name |-> name, download_url |-> url]
NoCall == DetailsCall(0)

\* The calls the model's callers make.
Calls ==
    {SearchCall("Kitchen", None, 1), SearchCall("Kitchen", "tech", 1),
     SearchCall("", None, 60), SearchCall("Better", None, 3),
     SearchCall("KITCHEN", None, 5), DetailsCall(7), VersionsCall(7, None)}

\* The endpoint a call requests.
Endpoint(c) ==
    IF c.op = "search" THEN "/mods/search"
    ELSE IF c.op = "details" THEN "/mods/" \o ToString(c.modpack_id)
    ELSE "/mods/" \o ToString(c.modpack_id) \o "/files"

\* The params dict a call builds, in insertion order.
Params(c) ==
    IF c.op = "search"
    THEN << <<"gameId", IntVal(MINECRAFT_GAME_ID)>>,
            <<"categoryId", IntVal(MODPACK_CATEGORY_ID)>>,
            <<"sortField", StrVal(c.sort_field)>>,
            <<"sortOrder", StrVal(c.sort_order)>>,
            <<"pageSize", IntVal(IF c.page_size < MAX_PAGE_SIZE
                                 THEN c.page_size ELSE MAX_PAGE_SIZE)>>,
            <<"index", IntVal(c.index)>> >>
         \o (IF c.search_term # ""
             THEN << <<"searchFilter", StrVal(c.search_term)>> >> ELSE <<>>)
    ELSE IF c.op = "versions" /\ c.game_version # None /\ c.game_version # ""
    THEN << <<"gameVersion", StrVal(c.game_version)>> >>
    ELSE <<>>

CacheKey(c) == _get_cache_key(Endpoint(c), Params(c))

\* Raw upstream records.
ItemTech ==
    [id |-> 101, name |-> "Tech Pack", summary |-> "machines",
     downloadCount |-> 5, categories |-> <<[name |-> "Tech"]>>,
     authors |-> <<[name |-> "ann"]>>, logo |-> [url |-> "http://l/1"],
     dateModified |-> "2024-01-02T03:04:05Z"]
ItemPlain == [id |-> 102, name |-> "Plain Pack"]
ItemBadDate == [id |-> 103, name |-> "Bad Date", dateModified |-> "yesterday"]
ItemMillion == [id |-> 1000000, name |-> "Millionth Pack"]
FileOld ==
    [id |-> 1, displayName |-> "v1", fileName |-> "v1.zip",
     fileDate |-> "2024-01-01T00:00:00Z"]
FileNew ==
    [id |-> 2, displayName |-> "v2", fileName |-> "v2.zip",
     fileDate |-> "2024-02-01T00:00:00Z", downloadUrl |-> "http://f/2",
     gameVersions |-> <<"1.20.1">>, modLoader |-> "Forge", fileLength |-> 10]
FileBad == [id |-> 3, displayName |-> "v3", fileName |-> "v3.zip", fileDate |-> ""]
FileMid ==
    [id |-> 4, displayName |-> "v4", fileName |-> "v4.zip",
     fileDate |-> "2024-01-15T12:00:00+00:00"]
FileNaive ==
    [id |-> 5, displayName |-> "v5", fileName |-> "v5.zip",
     fileDate |-> "2024-03-01T00:00:00"]

\* A response body: the JSON object {"data": [...]}, {"data": {...}},
\* {"data": null} or {} (shape "list", "object", "null", "missing").
ListBody(items) == [shape |-> "list", items |-> items]
ObjectBody(obj) == [shape |-> "object", items |-> <<obj>>]
NullBody == [shape |-> "null", items |-> <<>>]
\* A body that is not JSON: response.json() raises JSONDecodeError.
InvalidBody == [shape |-> "invalid", items |-> <<>>]
EmptyObject == [x \in {} |-> ""]

\* The bodies upstream may send with a status below 400, by operation.
Bodies(op) ==
    IF op = "search"
    THEN {ListBody(<<ItemTech, ItemPlain>>), ListBody(<<ItemBadDate, ItemPlain>>),
          ListBody(<<ItemMillion>>), ListBody(<<NullItem, ItemPlain>>),
          ListBody(<<>>), MissingBody, NullBody}
    ELSE IF op = "details"
    THEN {ObjectBody(ItemTech), ObjectBody(ItemBadDate), ObjectBody(EmptyObject),
          NullBody, MissingBody}
    ELSE {ListBody(<<FileOld, FileNew>>), ListBody(<<FileBad, FileOld>>),
          ListBody(<<FileMid, FileNew, FileOld>>), ListBody(<<FileOld, FileMid, FileNew>>),
          ListBody(<<FileOld, FileNaive>>), ListBody(<<NullItem, FileOld>>),
          ListBody(<<>>), MissingBody}

\* The statuses upstream answers with: below 400 with a body, or an error.
OkStatuses == {200, 302}
ErrorStatuses == {400, 404, 429, 500}
TransportErrors == {"ConnectError", "TimeoutException", "HTTPError"}

\* The calls and answers of Spec.
PipelineCalls == {SearchCall("Kitchen", None, 1), DetailsCall(7)}
PipelineAnswers(op) ==
    {[kind |-> "response", status |-> 200, body |-> b, exc |-> ""] :
        b \in IF op = "search"
              THEN {ListBody(<<ItemTech, ItemPlain>>), ListBody(<<ItemMillion>>),
                    ListBody(<<>>)}
              ELSE {ObjectBody(ItemTech), ObjectBody(EmptyObject)}}
    \cup {[kind |-> "response", status |-> 404, body |-> MissingBody, exc |-> ""],
          [kind |-> "error", status |-> 0, body |-> MissingBody, exc |-> "ConnectError"]}

\* What awaiting self.client.get can end in.
Answers(op) ==
    {[kind |-> "response", status |-> st, body |-> b, exc |-> ""] :
        st \in OkStatuses, b \in Bodies(op) \cup {InvalidBody}}
    \cup {[kind |-> "response", status |-> st, body |-> MissingBody, exc |-> ""] :
             st \in ErrorStatuses}
    \cup {[kind |-> "error", status |-> 0, body |-> MissingBody, exc |-> e] :
             e \in TransportErrors}

(***************************************************************************)
(* ModpackService: the request pipeline and the public operations.         *)
(***************************************************************************)
MaxCalls == 2        \* public operations begun per behaviour (Spec)
MaxAnswerCalls == 1  \* public operations begun per behaviour (SpecAnswers)
MaxTicks == 2        \* steps of the clock per behaviour (Spec)

\* is_api_available
is_api_available == api_key # None

\* The exception _make_request raises for a status code, "" if none.
StatusErrorMutant(status) ==
    IF status = 429 THEN "APIRateLimitError"
    ELSE IF status = 404 THEN "ModpackNotFoundError"
    ELSE IF status > 400 THEN "ModpackServiceError"
    ELSE ""
StatusError(status) ==
    IF status = 429 THEN "APIRateLimitError"
    ELSE IF status = 404 THEN "ModpackNotFoundError"
    ELSE IF status >= 400 THEN "ModpackServiceError"
    ELSE ""

\* The except clauses of _make_request.
TransportErrorMutant(e) == "ModpackServiceError"
TransportError(e) ==
    IF e \in {"ConnectError", "TimeoutException"} THEN "APIConnectionError"
    ELSE "ModpackServiceError"

Raised(e) == [ok |-> FALSE, body |-> MissingBody, exc |-> e]
Returned(body) == [ok |-> TRUE, body |-> body, exc |-> ""]

\* What _make_request ends in once self.client.get has ended in answer.
RequestResult(answer) ==
    IF answer.kind = "error" THEN Raised(TransportError(answer.exc))
    ELSE IF StatusError(answer.status) # "" THEN Raised(StatusError(answer.status))
    ELSE IF answer.body.shape = "invalid" THEN Raised("JSONDecodeError")
    ELSE Returned(answer.body)

Return(value) == [kind |-> "return", value |-> value, exc |-> "", cause |-> ""]
Raise(e, cause) == [kind |-> "raise", value |-> <<>>, exc |-> e, cause |-> cause]

\* if category_filter and category_filter.lower() not in [cat.lower() ...]: continue
PassesFilter(modpack, category_filter) ==
    \/ category_filter = None
    \/ category_filter = ""
    \/ \E i \in 1..Len(modpack.categories) :
           lower(modpack.categories[i]) = lower(category_filter)

\* The loop of search_modpacks over response.get("data", []).
SearchResults(body, category_filter) ==
    LET kept == SelectSeq(body.items, LAMBDA mod_data :
                    /\ SearchParseError(mod_data) = ""
                    /\ PassesFilter(_parse_modpack_search_result(mod_data),
                                    category_filter))
    IN  [i \in 1..Len(kept) |-> _parse_modpack_search_result(kept[i])]

\* search_modpacks from the end of _make_request on: its result, the path
\* that produced it and the exception the direct attempt raised ("" if none).
SearchDirectError(mr) ==
    IF ~mr.ok THEN mr.exc
    ELSE IF mr.body.shape = "null" THEN "TypeError"
    ELSE IF SkipLogRaises(mr.body.items) THEN "AttributeError"
    ELSE ""

SearchEndReraises(c, mr) ==
    IF SearchDirectError(mr) = ""
    THEN [res |-> Return(SearchResults(mr.body, c.category_filter)),
          path |-> "direct", err |-> ""]
    ELSE IF SearchDirectError(mr) \in {"APIRateLimitError", "APIConnectionError"}
    THEN [res |-> Raise(SearchDirectError(mr), ""), path |-> "direct",
          err |-> SearchDirectError(mr)]
    ELSE [res |-> Return(FallbackResults(c.search_term, c.page_size)),
          path |-> "fallback", err |-> SearchDirectError(mr)]
SearchEndOnEmpty(c, mr) ==
    IF SearchDirectError(mr) = "" /\ Len(SearchResults(mr.body, c.category_filter)) > 0
    THEN [res |-> Return(SearchResults(mr.body, c.category_filter)),
          path |-> "direct", err |-> ""]
    ELSE [res |-> Return(FallbackResults(c.search_term, c.page_size)),
          path |-> "fallback", err |-> SearchDirectError(mr)]
SearchEnd(c, mr) ==
    IF SearchDirectError(mr) = ""
    THEN [res |-> Return(SearchResults(mr.body, c.category_filter)),
          path |-> "direct", err |-> ""]
    ELSE [res |-> Return(FallbackResults(c.search_term, c.page_size)),
          path |-> "fallback", err |-> SearchDirectError(mr)]

\* get_modpack_details from the end of _make_request on.
DetailsEndMutant(c, mr) ==
    IF ~mr.ok
    THEN [res |-> Raise("ModpackServiceError", mr.exc), path |-> "direct", err |-> mr.exc]
    ELSE IF mr.body.shape # "object" \/ DOMAIN mr.body.items[1] = {}
    THEN [res |-> Raise("ModpackServiceError", "ModpackNotFoundError"),
          path |-> "direct", err |-> "ModpackNotFoundError"]
    ELSE [res |-> Return(<<_parse_modpack_details(mr.body.items[1])>>),
          path |-> "direct", err |-> ""]
DetailsEndPropagates(c, mr) ==
    IF ~mr.ok
    THEN [res |-> Raise(mr.exc, ""), path |-> "direct", err |-> mr.exc]
    ELSE IF mr.body.shape # "object" \/ DOMAIN mr.body.items[1] = {}
    THEN [res |-> Raise("ModpackNotFoundError", ""), path |-> "direct",
          err |-> "ModpackNotFoundError"]
    ELSE IF DetailsParseError(mr.body.items[1]) # ""
    THEN [res |-> Raise(DetailsParseError(mr.body.items[1]), ""),
          path |-> "direct", err |-> DetailsParseError(mr.body.items[1])]
    ELSE [res |-> Return(<<_parse_modpack_details(mr.body.items[1])>>),
          path |-> "direct", err |-> ""]
DetailsEnd(c, mr) ==
    IF ~mr.ok
    THEN [res |-> IF mr.exc = "ModpackNotFoundError"
                  THEN Raise("ModpackNotFoundError", "")
                  ELSE Raise("ModpackServiceError", mr.exc),
          path |-> "direct", err |-> mr.exc]
    ELSE IF mr.body.shape # "object" \/ DOMAIN mr.body.items[1] = {}
    THEN [res |-> Raise("ModpackNotFoundError", ""), path |-> "direct",
          err |-> "ModpackNotFoundError"]
    ELSE IF DetailsParseError(mr.body.items[1]) # ""
    THEN [res |-> Raise("ModpackServiceError", DetailsParseError(mr.body.items[1])),
          path |-> "direct", err |-> DetailsParseError(mr.body.items[1])]
    ELSE [res |-> Return(<<_parse_modpack_details(mr.body.items[1])>>),
          path |-> "direct", err |-> ""]

\* The loop of get_modpack_versions over files_data.
ParsedVersions(body) ==
    LET good == SelectSeq(body.items, LAMBDA file_data : VersionParseError(file_data) = "")
    IN  [i \in 1..Len(good) |-> _parse_modpack_version(good[i])]

\* get_modpack_versions from the end of _make_request on.
VersionsEnd(c, mr) ==
    IF ~mr.ok
    THEN [res |-> Raise("ModpackServiceError", mr.exc), path |-> "direct", err |-> mr.exc]
    ELSE IF mr.body.shape # "list" \/ Len(mr.body.items) = 0
    THEN [res |-> Return(<<>>), path |-> "direct", err |-> ""]
    ELSE IF SkipLogRaises(mr.body.items)
    THEN [res |-> Raise("ModpackServiceError", "AttributeError"), path |-> "direct",
          err |-> "AttributeError"]
    ELSE IF SortRaises(ParsedVersions(mr.body))
    THEN [res |-> Raise("ModpackServiceError", "TypeError"), path |-> "direct",
          err |-> "TypeError"]
    ELSE [res |-> Return(NewestFirst(ParsedVersions(mr.body))), path |-> "direct",
          err |-> ""]

OperationEnd(c, mr) ==
    IF c.op = "search" THEN SearchEnd(c, mr)
    ELSE IF c.op = "details" THEN DetailsEnd(c, mr)
    ELSE VersionsEnd(c, mr)

\* What _make_request can end in for an operation.
RequestResults(op) ==
    {RequestResult(a) : a \in Answers(op)}
    \cup {Raised("ModpackServiceError"), Raised("RuntimeError")}

(***************************************************************************)
(* Custom sources: validate_custom_modpack_url and create_custom_modpack.  *)
(***************************************************************************)
\* s[i], or "" outside of s
At(s, i) == IF i >= 1 /\ i <= Len(s) THEN SubSeq(s, i, i) ELSE ""

\* url.split("/")[-1]
LastSegment(url) ==
    LET slashes == {i \in 1..Len(url) : At(url, i) = "/"} IN
    IF slashes = {} THEN url
    ELSE SubSeq(url, (CHOOSE i \in slashes : \A j \in slashes : j <= i) + 1, Len(url))

\* Where group 1 of filename[*]?=([^;]+) starts when the pattern matches at
\* i, else 0.
FilenameGroupAt(s, i) ==
    IF i + 7 > Len(s) \/ SubSeq(s, i, i + 7) # "filename" THEN 0
    ELSE IF At(s, i + 8) = "=" /\ At(s, i + 9) \notin {"", ";"} THEN i + 9
    ELSE IF At(s, i + 8) = "*" /\ At(s, i + 9) = "=" /\ At(s, i + 10) \notin {"", ";"}
         THEN i + 10
    ELSE 0

\* re.search(r'filename[*]?=([^;]+)', cd_header).group(1), or "" without match
FilenameGroup(s) ==
    LET starts == {i \in 1..Len(s) : FilenameGroupAt(s, i) > 0} IN
    IF starts = {} THEN ""
    ELSE LET i == CHOOSE i \in starts : \A j \in starts : i <= j
             from == FilenameGroupAt(s, i)
             stops == {k \in from..Len(s) : At(s, k + 1) \in {"", ";"}}
         IN  SubSeq(s, from, CHOOSE k \in stops : \A j \in stops : k <= j)

\* s.strip('"\'')
RECURSIVE StripQuotes(_)
StripQuotes(s) ==
    IF At(s, 1) \in {"\"", "'"} THEN StripQuotes(SubSeq(s, 2, Len(s)))
    ELSE IF At(s, Len(s)) \in {"\"", "'"} THEN StripQuotes(SubSeq(s, 1, Len(s) - 1))
    ELSE s

\* The response to client.head(url, follow_redirects=True): its headers and
\* the URL that answered.
HeadBody(headers, url) == [shape |-> "head", items |-> <<headers, [url |-> url]>>]

\* The dictionary validate_custom_modpack_url returns.
UrlInfo(url, body) ==
    LET headers == body.items[1]
        content_length == Get(headers, "content-length", "")
        cd == Get(headers, "content-disposition", "")
    IN  [file_name |-> IF FilenameGroup(cd) # "" THEN StripQuotes(FilenameGroup(cd))
                       ELSE LastSegment(url),
         file_size |-> IF content_length # "" THEN ToInt(content_length) ELSE 0,
         content_type |-> Get(headers, "content-type", ""),
         url |-> body.items[2].url,
         accessible |-> TRUE]

\* validate_custom_modpack_url once client.head has ended in answer a.
ValidateEndMutant(c, a) ==
    IF a.kind = "error" THEN Raise("ModpackServiceError", a.exc)
    ELSE IF a.status >= 400 THEN Raise("ModpackServiceError", "")
    ELSE LET file_name == UrlInfo(c.download_url, a.body).file_name IN
         IF Len(file_name) < 4
            \/ SubSeq(file_name, Len(file_name) - 3, Len(file_name)) # ".zip"
         THEN Raise("ModpackServiceError", "")
         ELSE Return(<<UrlInfo(c.download_url, a.body)>>)
ValidateEnd(c, a) ==
    IF a.kind = "error" THEN Raise("ModpackServiceError", a.exc)
    ELSE IF a.status >= 400 THEN Raise("ModpackServiceError", "")
    ELSE Return(<<UrlInfo(c.download_url, a.body)>>)

\* create_custom_modpack once client.head has ended in answer a.
CreateEnd(c, a) ==
    IF ValidateEnd(c, a).kind = "raise" THEN ValidateEnd(c, a)
    ELSE LET url_info == ValidateEnd(c, a).value[1] IN
         Return(<<[name |-> c.name, description |-> "",
                   download_url |-> url_info.url, file_name |-> url_info.file_name,
                   mod_loader |-> None, game_version |-> None,
                   source_type |-> "url"]>>)

ProbeEnd(c, a) == IF c.op = "validate" THEN ValidateEnd(c, a) ELSE CreateEnd(c, a)

\* The calls that probe a URL, and what awaiting client.head can end in.
ProbeCalls ==
    {ValidateCall("http://h/pack.zip"), ValidateCall("http://h/get"),
     CreateCall("My Pack", "http://h/pack.txt")}
HeadHeaders ==
    {EmptyObject,
     [k \in {"content-length", "content-type"} |->
         IF k = "content-length" THEN "10" ELSE "application/zip"],
     [k \in {"content-disposition"} |-> "attachment; filename=\"real.zip\"; size=1"]}
HeadAnswers ==
    {[kind |-> "response", status |-> st, body |-> HeadBody(h, u), exc |-> ""] :
        st \in {200, 399}, h \in HeadHeaders, u \in {"http://cdn/final.zip"}}
    \cup {[kind |-> "response", status |-> st, body |-> MissingBody, exc |-> ""] :
             st \in ErrorStatuses}
    \cup {[kind |-> "error", status |-> 0, body |-> MissingBody, exc |-> e] :
             e \in TransportErrors}

\* The functions above, tabulated over the calls of the model.
CacheKeyOf == [c \in Calls |-> CacheKey(c)]
OperationEndOf ==
    [c \in Calls |-> [mr \in RequestResults(c.op) |-> OperationEnd(c, mr)]]
FallbackResultsOf == [c \in Calls |-> FallbackResults(c.search_term, c.page_size)]
ProbeEndOf == [c \in ProbeCalls |-> [a \in HeadAnswers |-> ProbeEnd(c, a)]]

\* How a call c that ends now follows the operation that ended before it.
Follows(c) ==
    IF last.res.kind = "none" THEN "none"
    ELSE IF last.call = c THEN "same" ELSE "other"

NoLast == [task |-> 0, call |-> NoCall, res |-> NoRes, stat |-> NoStat]
EmptyStore == [k \in {} |-> [call |-> NoCall, res |-> NoRes, path |-> "", at |-> 0]]

\* History: the result an identical call stored under the key of c, while
\* that entry is the last one stored under the key and its TTL has not elapsed.
Expect(c) ==
    IF /\ is_api_available
       /\ client = "open"
       /\ CacheKeyOf[c] \in DOMAIN lastStore
       /\ lastStore[CacheKeyOf[c]].call = c
       /\ now < lastStore[CacheKeyOf[c]].at + CACHE_TTL
    THEN [some |-> TRUE, res |-> lastStore[CacheKeyOf[c]].res]
    ELSE NoExpect

\* The operation of task t ends with the result _make_request gave it.
Finish(t, c, mr, st) ==
    LET end == OperationEndOf[c][mr] IN
    /\ last' = [task |-> t, call |-> c, res |-> end.res,
                stat |-> [st EXCEPT !.path = end.path, !.err = end.err,
                                    !.pipe = mr.exc, !.prev = Follows(c)]]
    /\ pc' = [pc EXCEPT ![t] = "idle"]
    /\ frame' = [frame EXCEPT ![t] = NoFrame]
    /\ call' = [call EXCEPT ![t] = NoCall]

\* Task t calls a public operation; it runs to its first suspension: the
\* cache hit, the errors raised before the request is sent, the sleep of
\* acquire(), or self.client.get.
Begin(t, c) ==
    /\ pc[t] = "idle"
    /\ ncalls' = ncalls + 1
    /\ LET key == CacheKeyOf[c]
           st0 == [NoStat EXCEPT !.cred = is_api_available, !.expect = Expect(c)]
           kept == Prune(requests, now, window_seconds)
           wait == Suspension(requests, now, max_requests, window_seconds)
       IN
       IF c.op = "search" /\ ~is_api_available
       THEN \* no API key: fallback suggestions
            /\ last' = [task |-> t, call |-> c, res |-> Return(FallbackResultsOf[c]),
                        stat |-> [st0 EXCEPT !.path = "fallback",
                                             !.prev = Follows(c)]]
            /\ UNCHANGED <<pc, frame, call, cache, requests>>
       ELSE IF client = "None"
       THEN \* Service not initialized
            /\ Finish(t, c, Raised("ModpackServiceError"), st0)
            /\ UNCHANGED <<cache, requests>>
       ELSE IF _get_cached_data(cache, key, now) # NoData
       THEN \* cache hit
            /\ Finish(t, c, Returned(_get_cached_data(cache, key, now)),
                      [st0 EXCEPT !.hit = TRUE])
            /\ UNCHANGED <<cache, requests>>
       ELSE /\ cache' = CacheAfterGet(cache, key, now)
            /\ IF wait > 0
               THEN \* acquire() suspends in asyncio.sleep
                    /\ requests' = kept
                    /\ pc' = [pc EXCEPT ![t] = "sleep"]
                    /\ frame' = [frame EXCEPT ![t] =
                                   [acq_now |-> now, wait_time |-> wait, h |-> 0,
                                    cache_key |-> key, st |-> st0]]
                    /\ call' = [call EXCEPT ![t] = c]
                    /\ UNCHANGED last
               ELSE /\ requests' = Admit(kept, now)
                    /\ IF client = "closed"
                       THEN \* the closed httpx client refuses to send
                            Finish(t, c, Raised("RuntimeError"),
                                   [st0 EXCEPT !.nadm = 1, !.sess = "closed"])
                       ELSE /\ pc' = [pc EXCEPT ![t] = "http"]
                            /\ frame' = [frame EXCEPT ![t] =
                                           [acq_now |-> now, wait_time |-> 0, h |-> 0,
                                            cache_key |-> key,
                                            st |-> [st0 EXCEPT !.nadm = 1, !.nreq = 1,
                                                               !.sess = "open"]]]
                            /\ call' = [call EXCEPT ![t] = c]
                            /\ UNCHANGED last
    /\ UNCHANGED <<now, max_requests, window_seconds, histVars, putlog, got, keyVars, migVars, pureVars,
                   api_key, client, lastStore>>

\* asyncio.sleep of acquire() is over for task t: the admission is recorded
\* with the time read before the sleep and the request is sent.
ResumeRequest(t) ==
    /\ pc[t] = "sleep"
    /\ call[t] # NoCall
    /\ now >= frame[t].acq_now + frame[t].wait_time
    /\ requests' = Admit(requests, frame[t].acq_now)
    /\ IF client = "closed"
       THEN Finish(t, call[t], Raised("RuntimeError"),
                   [frame[t].st EXCEPT !.nadm = 1, !.sess = "closed"])
       ELSE /\ pc' = [pc EXCEPT ![t] = "http"]
            /\ frame' = [frame EXCEPT ![t].st.nadm = 1, ![t].st.nreq = 1,
                                   ![t].st.sess = "open"]
            /\ UNCHANGED <<call, last>>
    /\ UNCHANGED <<now, max_requests, window_seconds, histVars, cacheVars, keyVars, migVars, pureVars,
                   api_key, client, lastStore, ncalls>>

\* self.client.get of task t ends in answer a; the rest of _make_request and
\* of the operation follows without suspension.
Respond(t, a) ==
    /\ pc[t] = "http"
    /\ LET mr == RequestResult(a)
           key == frame[t].cache_key
       IN  /\ Finish(t, call[t], mr, [frame[t].st EXCEPT !.answer = a])
           /\ IF mr.ok
              THEN /\ cache' = _cache_data(cache, key, mr.body, CACHE_TTL, now)
                   /\ lastStore' =
                        [k \in DOMAIN lastStore \cup {key} |->
                            IF k = key
                            THEN [call |-> call[t],
                                  res |-> OperationEndOf[call[t]][mr].res,
                                  path |-> OperationEndOf[call[t]][mr].path,
                                  at |-> now]
                            ELSE lastStore[k]]
              ELSE UNCHANGED <<cache, lastStore>>
    /\ UNCHANGED <<now, limiterVars, histVars, putlog, got, keyVars, migVars, pureVars, api_key, client,
                   ncalls>>

\* Task t calls validate_custom_modpack_url or create_custom_modpack, up
\* to client.head.
BeginProbe(t, c) ==
    /\ pc[t] = "idle"
    /\ ncalls' = ncalls + 1
    /\ LET st0 == [NoStat EXCEPT !.cred = is_api_available] IN
       IF client = "None"
       THEN \* Service not initialized
            /\ last' = [task |-> t, call |-> c, res |-> Raise("ModpackServiceError", ""),
                        stat |-> [st0 EXCEPT !.prev = Follows(c)]]
            /\ UNCHANGED <<pc, frame, call>>
       ELSE IF client = "closed"
       THEN \* the closed httpx client refuses to send: RuntimeError, which
            \* except httpx.HTTPError does not catch
            /\ last' = [task |-> t, call |-> c, res |-> Raise("RuntimeError", ""),
                        stat |-> [st0 EXCEPT !.sess = "closed", !.prev = Follows(c)]]
            /\ UNCHANGED <<pc, frame, call>>
       ELSE /\ pc' = [pc EXCEPT ![t] = "head"]
            /\ frame' = [frame EXCEPT ![t] = [NoFrame EXCEPT !.st = [st0 EXCEPT !.nreq = 1, !.sess = "open"]]]
            /\ call' = [call EXCEPT ![t] = c]
            /\ UNCHANGED last
    /\ UNCHANGED <<now, limiterVars, histVars, cacheVars, keyVars, migVars, pureVars, api_key, client,
                   lastStore>>

\* client.head of task t ends in answer a.
RespondProbe(t, a) ==
    /\ pc[t] = "head"
    /\ last' = [task |-> t, call |-> call[t], res |-> ProbeEndOf[call[t]][a],
                stat |-> [frame[t].st EXCEPT !.answer = a, !.prev = Follows(call[t])]]
    /\ pc' = [pc EXCEPT ![t] = "idle"]
    /\ frame' = [frame EXCEPT ![t] = NoFrame]
    /\ call' = [call EXCEPT ![t] = NoCall]
    /\ UNCHANGED <<now, limiterVars, histVars, cacheVars, keyVars, migVars, pureVars, api_key, client,
                   lastStore, ncalls>>

\* __aenter__
AEnter ==
    /\ client = "None"
    /\ client' = "open"
    /\ UNCHANGED <<now, limiterVars, taskVars, histVars, cacheVars, keyVars, migVars, pureVars, api_key,
                   call, last, lastStore, ncalls>>

\* __aexit__
AExit ==
    /\ client = "open"
    /\ client' = "closed"
    /\ UNCHANGED <<now, limiterVars, taskVars, histVars, cacheVars, keyVars, migVars, pureVars, api_key,
                   call, last, lastStore, ncalls>>

\* clear_cache
clear_cache ==
    /\ cache # EmptyCache
    /\ cache' = EmptyCache
    /\ lastStore' = EmptyStore
    /\ UNCHANGED <<now, limiterVars, taskVars, histVars, putlog, got, keyVars, migVars, pureVars, api_key,
                   client, call, last, ncalls>>

\* The steps the clock took to reach time t.
Ticks(t) == (t \div CACHE_TTL) + (t % CACHE_TTL)

\* Time passes: a second, or a whole TTL.
Tick ==
    /\ Ticks(now) < MaxTicks
    /\ \E d \in {1, CACHE_TTL} : now' = now + d
    /\ UNCHANGED <<limiterVars, taskVars, histVars, cacheVars, keyVars, migVars, pureVars, svcVars>>

ServiceUnused ==
    /\ api_key = None /\ client = "None"
    /\ call = [t \in Tasks |-> NoCall]
    /\ last = NoLast /\ lastStore = EmptyStore /\ ncalls = 0

\* ModpackService(api_key), constructed.
Init ==
    /\ now = 0
    /\ api_key \in {None, "key"}
    /\ client = "None"
    /\ cache = EmptyCache
    /\ max_requests = SERVICE_MAX_REQUESTS
    /\ window_seconds = SERVICE_WINDOW
    /\ requests = <<>>
    /\ pc = [t \in Tasks |-> "idle"]
    /\ frame = [t \in Tasks |-> NoFrame]
    /\ call = [t \in Tasks |-> NoCall]
    /\ last = NoLast
    /\ lastStore = EmptyStore
    /\ ncalls = 0
    /\ hist = <<>> /\ overlapped = FALSE
    /\ putlog = EmptyCache /\ got = NoGot
    /\ KeyUnused
    /\ MigrationsUnused
    /\ PureUnused

\* The tasks are interchangeable: a new call goes to the free task of
\* lowest number.
FirstFree(t) == pc[t] = "idle" /\ \A u \in Tasks : u < t => pc[u] # "idle"

\* Spec: concurrent operations on one client over time, with the calls and
\* upstream answers of PipelineCalls and PipelineAnswers.  The service's
\* limiter admits 100 requests a minute and a behaviour makes fewer, so
\* acquire() never suspends here and ResumeRequest never takes place
\* (ServiceLimiterIdle); SpecLimiter covers the suspension.
Next ==
    \/ \E t \in Tasks, c \in PipelineCalls :
           FirstFree(t) /\ ncalls < MaxCalls /\ Begin(t, c)
    \/ \E t \in Tasks : \E a \in PipelineAnswers(call[t].op) : Respond(t, a)
    \/ AEnter
    \/ AExit
    \/ clear_cache
    \/ Tick

Spec == Init /\ [][Next]_vars

\* SpecAnswers: each operation against every upstream answer, at one
\* instant.
NextAnswers ==
    \/ \E t \in Tasks, c \in Calls :
           FirstFree(t) /\ ncalls < MaxAnswerCalls /\ Begin(t, c)
    \/ \E t \in Tasks : \E a \in Answers(call[t].op) : Respond(t, a)
    \/ \E t \in Tasks, c \in ProbeCalls :
           FirstFree(t) /\ ncalls < MaxAnswerCalls /\ BeginProbe(t, c)
    \/ \E t \in Tasks : \E a \in HeadAnswers : RespondProbe(t, a)
    \/ AEnter
    \/ AExit
    \/ clear_cache

SpecAnswers == Init /\ [][NextAnswers]_vars

\* RateLimiter(max_requests, window_seconds), fresh.
InitLimiter ==
    /\ now = 0
    /\ max_requests \in 1..MaxN
    /\ window_seconds \in 1..MaxW
    /\ requests = <<>>
    /\ pc = [t \in Tasks |-> "idle"]
    /\ frame = [t \in Tasks |-> NoFrame]
    /\ hist = <<>>
    /\ overlapped = FALSE
    /\ CacheUnused
    /\ KeyUnused
    /\ MigrationsUnused
    /\ PureUnused
    /\ ServiceUnused

NextLimiter ==
    \/ \E t \in Tasks : Acquire(t)
    \/ \E t \in Tasks : AcquireWake(t)
    \/ LimTick

SpecLimiter == InitLimiter /\ [][NextLimiter]_vars

(***************************************************************************)
(* Properties of the rate limiter                                          *)
(***************************************************************************)
Admitted == {i \in 1..Len(hist) : hist[i].admitted}

\* The admissions that fall in the interval [hist[i].admit, hist[i].admit + W).
InWindowFrom(i) ==
    {j \in Admitted : /\ hist[i].admit <= hist[j].admit
                      /\ hist[j].admit < hist[i].admit + window_seconds}

AdmissionBound ==
    \A i \in Admitted : Cardinality(InWindowFrom(i)) <= max_requests

\* C2: when acquire() calls follow one another (none begins while another is
\* suspended), at most max_requests admissions fall inside any interval of
\* length window_seconds.
C2_SequentialAdmissionBound == ~overlapped => AdmissionBound

\* A limiter of one request a second: the first call is admitted at 0, the
\* second suspends and returns at 1, the third is called at 1 and returns
\* at once.
C2_Witness ==
    /\ ~overlapped /\ max_requests = 1 /\ window_seconds = 1
    /\ Len(hist) = 3
    /\ hist[1].admitted /\ hist[1].admit = 0
    /\ hist[2].admitted /\ hist[2].wait = 1 /\ hist[2].admit = 1
    /\ hist[3].admitted /\ hist[3].wait = 0 /\ hist[3].admit = 1

\* C3: with callers interleaving at the suspension point, every admission is
\* recorded exactly once and at most max_requests callers are admitted
\* within any interval of length window_seconds.
C3_ConcurrentAdmissionBound ==
    /\ Len(requests) <= Cardinality(Admitted)
    /\ overlapped => AdmissionBound

\* A limiter of one request a second: after an admission at 0, two callers
\* suspend together and both return at 1.
C3_Witness ==
    /\ overlapped /\ max_requests = 1 /\ window_seconds = 1
    /\ Len(hist) = 3
    /\ hist[1].admitted /\ hist[1].admit = 0
    /\ hist[2].admitted /\ hist[2].start = 0 /\ hist[2].admit = 1
    /\ hist[3].admitted /\ hist[3].start = 0 /\ hist[3].admit = 1

\* C4: on a fresh limiter, N calls made back to back (all within the window
\* of the first, no two overlapping) return without suspending and leave N
\* timestamps, and call N+1 made within that window suspends for d, 0 < d <= W.
BackToBack(k) == hist[k].start - hist[1].start < window_seconds
C4_BurstThenSuspend ==
    ~overlapped =>
        \A k \in 1..Len(hist) :
            BackToBack(k) =>
                /\ k <= max_requests => hist[k].wait = 0 /\ hist[k].len = k
                /\ k = max_requests + 1 =>
                       hist[k].wait > 0 /\ hist[k].wait <= window_seconds

C4_Witness ==
    /\ ~overlapped
    /\ max_requests = 2
    /\ Len(hist) >= 3
    /\ BackToBack(3)
    /\ hist[2].len = 2
    /\ hist[3].wait > 0
    /\ hist[3].admitted

(***************************************************************************)
(* SpecKey: _get_cache_key applied to bounded params dicts, each of them   *)
(* built in every insertion order.                                         *)
(***************************************************************************)
KeyMaxParams == 3
KeyEndpoints == {"/test", "/mods/search"}
KeyNames == {"param1", "param2", "gameId", "Index"}
KeyValues == {StrVal("value1"), StrVal("value2"), IntVal(432)}

\* Every sequence that lists the elements of S once each.
Orderings(S) ==
    {s \in [1..Cardinality(S) -> S] :
        \A i, j \in 1..Cardinality(S) : i # j => s[i] # s[j]}

\* The dicts of n items, in every insertion order.
DictsOf(n) ==
    {p \in [1..n -> KeyNames \X KeyValues] :
        \A i, j \in 1..n : i # j => p[i][1] # p[j][1]}

ItemSet(params) == {params[i] : i \in 1..Len(params)}

InitKey ==
    /\ k_endpoint \in KeyEndpoints
    /\ \E n \in 0..KeyMaxParams : k_params \in DictsOf(n)
    /\ k_key = ""
    /\ k_first = ""
    /\ PureUnused
    /\ MigrationsUnused
    /\ now = 0
    /\ LimiterUnused
    /\ CacheUnused
    /\ ServiceUnused

\* key = service._get_cache_key(endpoint, params)
KeyCompute ==
    /\ k_key = ""
    /\ k_key' = _get_cache_key(k_endpoint, k_params)
    /\ k_first' = IF k_first = "" THEN k_key' ELSE k_first
    /\ UNCHANGED <<k_endpoint, k_params, pureVars, migVars, now, limiterVars, taskVars, histVars, cacheVars, svcVars>>

\* The same dict is built again, its items inserted in another order.
KeyReinsert ==
    /\ k_key # ""
    /\ k_params' \in Orderings(ItemSet(k_params)) \ {k_params}
    /\ k_key' = ""
    /\ UNCHANGED <<k_endpoint, k_first, pureVars, migVars, now, limiterVars, taskVars, histVars, cacheVars, svcVars>>

NextKey == KeyCompute \/ KeyReinsert

SpecKey == InitKey /\ [][NextKey]_vars

\* The items of the dict in ascending order of name.
ByName(params) ==
    CHOOSE s \in Orderings(ItemSet(params)) :
        \A i, j \in 1..Len(s) : i < j => StrLess(s[i][1], s[j][1])

ExpectedKey ==
    LET s == ByName(k_params) IN
    k_endpoint \o "?" \o
        Join("&", [i \in 1..Len(s) |-> s[i][1] \o "=" \o Format(s[i][2])])

\* C6: the key computed for a dict is the same in whatever order its items
\* were inserted, and it is the endpoint, "?", then the name=value pairs in
\* ascending order of name joined with "&".
C6_CacheKeyDeterministic ==
    k_key # "" => k_key = k_first /\ k_key = ExpectedKey

C6_Witness ==
    /\ k_endpoint = "/test"
    /\ k_params = <<(<<"param2", StrVal("value2")>>), (<<"param1", StrVal("value1")>>)>>
    /\ k_key = "/test?param1=value1&param2=value2"
    /\ k_first = k_key

(***************************************************************************)
(* SpecCache: _cache_data and _get_cached_data used directly, with any     *)
(* ttl_seconds, as the unit tests use them.                                *)
(***************************************************************************)
CacheMaxMinutes == 1
CacheMaxSeconds == 1
CacheTimes == {60 * m + sec : m \in 0..CacheMaxMinutes, sec \in 0..CacheMaxSeconds}
CacheSteps == {1, 60}
CacheKeys == {"/test?param1=value1", "/mods/1?"}
CacheData == {[test |-> "data"], [test |-> "old_data"]}
CacheTtls == {0, 60}

InitCache ==
    /\ now = 0
    /\ cache = EmptyCache
    /\ putlog = EmptyCache
    /\ got = NoGot
    /\ LimiterUnused
    /\ KeyUnused
    /\ MigrationsUnused
    /\ PureUnused
    /\ ServiceUnused

\* service._cache_data(cache_key, data, ttl_seconds)
CachePut(cache_key, data, ttl_seconds) ==
    /\ cache' = _cache_data(cache, cache_key, data, ttl_seconds, now)
    /\ putlog' = [k \in DOMAIN putlog \cup {cache_key} |->
                    IF k = cache_key
                    THEN [data |-> data, at |-> now, ttl |-> ttl_seconds]
                    ELSE putlog[k]]
    /\ out' = NoOut
    /\ UNCHANGED <<fn, arg, got, now, limiterVars, taskVars, histVars, keyVars, migVars, svcVars>>

\* service._get_cached_data(cache_key)
CacheGet(cache_key) ==
    /\ cache' = CacheAfterGet(cache, cache_key, now)
    /\ got' = [key |-> cache_key, at |-> now,
               value |-> _get_cached_data(cache, cache_key, now),
               put |-> IF cache_key \in DOMAIN putlog THEN putlog[cache_key] ELSE NoPut,
               held_before |-> cache_key \in DOMAIN cache,
               held_after |-> cache_key \in DOMAIN cache']
    /\ out' = NoOut
    /\ UNCHANGED <<fn, arg, putlog, now, limiterVars, taskVars, histVars, keyVars, migVars, svcVars>>

\* service.get_cache_stats(); out holds what it returned while it is the
\* operation that ran last.
CacheStats ==
    /\ out' = [done |-> TRUE, exc |-> "", value |-> get_cache_stats(cache, now)]
    /\ UNCHANGED <<fn, arg, cacheVars, now, limiterVars, taskVars, histVars, keyVars, migVars, svcVars>>

\* service.clear_cache()
CacheClear ==
    /\ cache' = EmptyCache
    /\ putlog' = EmptyCache
    /\ out' = NoOut
    /\ UNCHANGED <<fn, arg, got, now, limiterVars, taskVars, histVars, keyVars, migVars, svcVars>>

CacheTick ==
    /\ \E d \in CacheSteps : now + d \in CacheTimes /\ now' = now + d
    /\ out' = NoOut
    /\ UNCHANGED <<fn, arg, cacheVars, limiterVars, taskVars, histVars, keyVars, migVars, svcVars>>

NextCache ==
    \/ \E k \in CacheKeys, d \in CacheData, ttl \in CacheTtls : CachePut(k, d, ttl)
    \/ \E k \in CacheKeys : CacheGet(k)
    \/ CacheTick

SpecCache == InitCache /\ [][NextCache]_vars

\* SpecStats: the cache of test_cache_operations with its statistics and
\* clear_cache.
NextStats ==
    \/ \E k \in CacheKeys, ttl \in CacheTtls : CachePut(k, [test |-> "data"], ttl)
    \/ \E k \in CacheKeys : CacheGet(k)
    \/ CacheStats
    \/ CacheClear
    \/ CacheTick

SpecStats == InitCache /\ [][NextStats]_vars

\* C5: a lookup returns the stored payload only while now <= storage time +
\* ttl; an entry put with ttl 0 is absent for every lookup strictly after its
\* storage; an entry put with ttl 60 is present at its storage instant; a
\* lookup that finds an expired entry removes it and reports absent.
C5_CacheExpiry ==
    got.at >= 0 =>
        /\ got.value # NoData =>
               /\ got.put # NoPut
               /\ got.value = got.put.data
               /\ got.at <= got.put.at + got.put.ttl
        /\ (got.put # NoPut /\ got.put.ttl = 0 /\ got.at > got.put.at) =>
               got.value = NoData
        /\ (got.put # NoPut /\ got.put.ttl = 60 /\ got.at = got.put.at) =>
               got.value = got.put.data
        /\ (got.held_before /\ got.at > got.put.at + got.put.ttl) =>
               got.value = NoData /\ ~got.held_after

C5_Witness ==
    /\ got.put # NoPut
    /\ got.put.ttl = 0
    /\ got.at > got.put.at
    /\ got.held_before
    /\ ~got.held_after
    /\ got.value = NoData
    /\ \E k \in DOMAIN cache : cache[k].expires_at = putlog[k].at + 60 /\ now = putlog[k].at

(***************************************************************************)
(* Properties of the request pipeline (Spec).                              *)
(***************************************************************************)
\* The service's limiter never suspends within the bounds of Spec.
ServiceLimiterIdle == \A t \in Tasks : pc[t] # "sleep"

\* C1: on a credentialed client with an open session, a call identical to
\* one that completed with a successful response less than 300 seconds ago
\* returns an equal result, records no admission in the limiter and sends no
\* request; in particular it never reaches the limiter or the network.
C1_CacheHitWithinTtl ==
    /\ last.stat.expect.some =>
          /\ last.res = last.stat.expect.res
          /\ last.stat.nadm = 0
          /\ last.stat.nreq = 0
    /\ \A t \in Tasks : pc[t] # "idle" => ~frame[t].st.expect.some

\* The second of two identical searches, a second before the TTL of the
\* first one's entry elapses, after upstream answered the first with results.
C1_Witness ==
    /\ last.call = SearchCall("Kitchen", None, 1)
    /\ last.stat.expect.some
    /\ last.stat.hit
    /\ last.res.kind = "return"
    /\ Len(last.res.value) = 2
    /\ now > 0

(***************************************************************************)
(* Properties of the operations' outcomes (SpecAnswers).                   *)
(***************************************************************************)
\* The entries of the fallback catalog that a search term selects.
FallbackMatches(search_term) ==
    {i \in 1..Len(popular_modpacks) :
        search_term = "" \/ PackMatches(popular_modpacks[i], search_term)}
FallbackMatchesOf == [c \in Calls |-> FallbackMatches(c.search_term)]

\* v is the first page_size catalog entries selected, in catalog order.
IsFallbackPage(v, M, page_size) ==
    /\ Len(v) = IF page_size < Cardinality(M) THEN page_size ELSE Cardinality(M)
    /\ \A j \in 1..Len(v) : \E i \in M :
          /\ Cardinality({k \in M : k < i}) = j - 1
          /\ v[j].name = popular_modpacks[i].name
          /\ v[j].summary = popular_modpacks[i].description

GenericErrors == {"APIConnectionError", "APIRateLimitError", "ModpackServiceError"}

EmptyData(body) ==
    \/ body.shape \in {"missing", "null"}
    \/ (body.shape = "list" /\ body.items = <<>>)
    \/ (body.shape = "object" /\ body.items[1] = EmptyObject)

\* C9: get_modpack_details raises ModpackNotFoundError, and no generic
\* error, when upstream answers 404 and when it answers with a status below
\* 400 and an empty data payload.
C9_DetailsNotFound ==
    (/\ last.call.op = "details"
     /\ last.stat.answer.kind = "response"
     /\ \/ last.stat.answer.status = 404
        \/ (last.stat.answer.status < 400 /\ EmptyData(last.stat.answer.body)))
    => last.res = Raise("ModpackNotFoundError", "")

\* Upstream answers 200 with {"data": {}} to get_modpack_details(7).
C9_Witness ==
    /\ last.call = DetailsCall(7)
    /\ last.stat.answer.status = 200
    /\ last.stat.answer.body = ObjectBody(EmptyObject)
    /\ last.res = Raise("ModpackNotFoundError", "")

\* C10, as the specification states it: get_modpack_versions hands the
\* not-found error of a 404 on the files endpoint to its caller unchanged.
C10_VersionsNotFoundPropagates ==
    (/\ last.call.op = "versions"
     /\ last.stat.answer.kind = "response"
     /\ last.stat.answer.status = 404)
    => last.res = Raise("ModpackNotFoundError", "")

\* Upstream answers 404 to get_modpack_versions(7), which raises the generic
\* error with the not-found error as its cause.
C10_Witness ==
    /\ last.call = VersionsCall(7, None)
    /\ last.stat.answer.status = 404
    /\ last.res = Raise("ModpackServiceError", "ModpackNotFoundError")

\* The error kind the request pipeline gives to a failed request.
OriginalCause(a) ==
    IF a.kind = "error"
    THEN (IF a.exc \in {"ConnectError", "TimeoutException"}
          THEN "APIConnectionError" ELSE "ModpackServiceError")
    ELSE IF a.status = 429 THEN "APIRateLimitError"
    ELSE "ModpackServiceError"

Lookups == {"details", "versions"}
Rejected(a) == a.kind = "response" /\ a.status >= 400
Unreachable(a) == a.kind = "error" /\ a.exc \in {"ConnectError", "TimeoutException"}

C12_CallerReceivesConnectionError ==
    (last.call.op \in Lookups /\ Unreachable(last.stat.answer))
    => (last.res.kind = "raise" /\ last.res.exc = "APIConnectionError")

\* C12, amended: on a connection failure or a timeout the request pipeline
\* raises APIConnectionError, which it raises for no answer that upstream
\* gave; get_modpack_details and get_modpack_versions hand it to the caller
\* as the cause of a ModpackServiceError.
C12_ConnectionErrorWrapped ==
    last.call.op \in Lookups =>
        /\ Unreachable(last.stat.answer) =>
              /\ last.stat.pipe = "APIConnectionError"
              /\ last.res = Raise("ModpackServiceError", "APIConnectionError")
        /\ last.stat.answer.kind = "response" =>
              /\ last.stat.pipe # "APIConnectionError"
              /\ last.res.cause # "APIConnectionError"

\* get_modpack_versions(7) times out.
C12_Witness ==
    /\ last.call = VersionsCall(7, None)
    /\ last.stat.answer.exc = "TimeoutException"
    /\ last.stat.pipe = "APIConnectionError"
    /\ last.res = Raise("ModpackServiceError", "APIConnectionError")

\* The operations that go through _make_request.
PipelineOps == {"search", "details", "versions"}
PipelineErrors == {"APIRateLimitError", "ModpackNotFoundError", "ModpackServiceError"}

\* C13: on a cache miss _make_request maps the status of the response to one
\* error: 429 to APIRateLimitError, 404 to ModpackNotFoundError, every other
\* status from 400 on to ModpackServiceError; for a status below 400 it
\* raises none of the three.
C13_StatusMapping ==
    (last.call.op \in PipelineOps /\ last.stat.answer.kind = "response") =>
        /\ last.stat.answer.status = 429 => last.stat.pipe = "APIRateLimitError"
        /\ last.stat.answer.status = 404 => last.stat.pipe = "ModpackNotFoundError"
        /\ (last.stat.answer.status >= 400 /\ last.stat.answer.status \notin {404, 429})
           => last.stat.pipe = "ModpackServiceError"
        /\ last.stat.answer.status < 400 => last.stat.pipe \notin PipelineErrors

\* Upstream answers 400, the lowest status that is an error.
C13_Witness ==
    /\ last.call.op = "search"
    /\ last.stat.answer.kind = "response"
    /\ last.stat.answer.status = 400
    /\ ~last.stat.hit
    /\ last.stat.pipe = "ModpackServiceError"

\* ModpackServiceError and its subclasses.
ServiceErrors ==
    {"ModpackServiceError", "APIConnectionError", "APIRateLimitError",
     "ModpackNotFoundError"}

\* C14, as the specification states it: whatever a public operation raises,
\* before the session is opened and after it is released included, is
\* ModpackServiceError or one of its subclasses.
C14_OnlyServiceErrorsEscape ==
    last.res.kind = "raise" => last.res.exc \in ServiceErrors

\* validate_custom_modpack_url on a service whose session was released.
C14_Witness ==
    /\ last.call = ValidateCall("http://h/pack.zip")
    /\ client = "closed"
    /\ last.stat.nreq = 0
    /\ last.res = Raise("RuntimeError", "")

\* The cache entries a step adds or replaces.
Stored == {k \in DOMAIN cache' : k \notin DOMAIN cache \/ cache'[k] # cache[k]}

\* The operation that ends in this step received a response with a body
\* that is JSON and a status in S.
AnsweredIn(S) ==
    /\ last'.stat.answer.kind = "response"
    /\ last'.stat.answer.status \in S
    /\ last'.stat.answer.body.shape # "invalid"

StoresOnlyFor(S) ==
    \A k \in Stored :
        /\ last' # last
        /\ AnsweredIn(S)
        /\ k = CacheKeyOf[last'.call]
        /\ cache'[k] = [data |-> last'.stat.answer.body, expires_at |-> now + 300]

\* C15, as the specification states it: an entry is stored only when
\* upstream answered with a status from 200 to 299, and then for 300 seconds.
C15_StoredOnly2xx == [][StoresOnlyFor(200..299)]_vars

\* Upstream answered get_modpack_details(7) with 302 and a JSON body, which
\* is in the cache for 300 seconds.
C15_Witness ==
    /\ last.call = DetailsCall(7)
    /\ last.stat.answer.status = 302
    /\ last.stat.answer.body = ObjectBody(ItemTech)
    /\ CacheKeyOf[last.call] \in DOMAIN cache
    /\ cache[CacheKeyOf[last.call]] =
          [data |-> ObjectBody(ItemTech), expires_at |-> now + 300]

\* C16: every result sequence of the fallback path, taken for lack of a
\* credential or after a failed direct attempt, carries the ids
\* 1,000,000 + position (from 0): all at least 1,000,000 and pairwise
\* distinct.
C16_FallbackIds ==
    (last.call.op = "search" /\ last.stat.path = "fallback") =>
        /\ last.res.kind = "return"
        /\ \A j \in 1..Len(last.res.value) :
              /\ last.res.value[j].id = 1000000 + (j - 1)
              /\ last.res.value[j].id >= 1000000
              /\ \A i \in 1..Len(last.res.value) :
                    i # j => last.res.value[i].id # last.res.value[j].id

\* A failed direct search for "KITCHEN" falls back to two entries.
C16_Witness ==
    /\ last.call = SearchCall("KITCHEN", None, 5)
    /\ last.stat.cred
    /\ last.stat.err # ""
    /\ last.stat.path = "fallback"
    /\ Len(last.res.value) = 2
    /\ last.res.value[2].id = 1000001

\* C17, as the specification states it: over any upstream content and any
\* sequence of searches, no id of a result of the direct path equals an id
\* of a result of the fallback path.
C17_NoIdCollision ==
    (last.call.op = "search" /\ last.stat.path = "fallback") =>
        \A k \in DOMAIN lastStore :
            (lastStore[k].call.op = "search" /\ lastStore[k].path = "direct") =>
                \A i \in 1..Len(lastStore[k].res.value) :
                    \A j \in 1..Len(last.res.value) :
                        lastStore[k].res.value[i].id # last.res.value[j].id

\* A search answered by upstream with the project of id 1000000, then,
\* after its cache entry expired, the same search answered from the catalog.
C17_Witness ==
    /\ last.call = SearchCall("Kitchen", None, 1)
    /\ last.stat.cred
    /\ last.stat.path = "fallback"
    /\ last.res.value[1].id = 1000000
    /\ \E k \in DOMAIN lastStore :
          /\ lastStore[k].path = "direct"
          /\ lastStore[k].res = Return(<<_parse_modpack_search_result(ItemMillion)>>)
          /\ lastStore[k].res.value[1].id = 1000000

\* term occurs in text, letter case apart.
MatchesCI(term, text) ==
    \E i \in 1..(Len(text) - Len(term) + 1) :
        \A k \in 1..Len(term) : LowerChar(At(text, i + k - 1)) = LowerChar(At(term, k))

CatalogMatches(term) ==
    {i \in 1..Len(popular_modpacks) :
        \/ term = ""
        \/ MatchesCI(term, popular_modpacks[i].name)
        \/ MatchesCI(term, popular_modpacks[i].description)}
CatalogMatchesOf == [c \in Calls |-> CatalogMatches(c.search_term)]

\* C18: without a credential, search(term, page_size) returns, in catalog
\* order, the first page_size entries of the fallback catalog whose name or
\* description contains term, letter case apart (every entry for an empty
\* term), each with the authors ["Community"]; for "Better" the result is
\* not empty.
C18_NoCredentialSearch ==
    (last.call.op = "search" /\ ~last.stat.cred) =>
        /\ last.res.kind = "return"
        /\ IsFallbackPage(last.res.value, CatalogMatchesOf[last.call],
                          last.call.page_size)
        /\ \A j \in 1..Len(last.res.value) :
              last.res.value[j].authors = <<"Community">>
        /\ last.call.search_term = "Better" => Len(last.res.value) > 0

\* Without a credential, "KITCHEN" selects the two entries that describe
\* themselves as kitchen sink packs, in catalog order.
C18_Witness ==
    /\ last.call = SearchCall("KITCHEN", None, 5)
    /\ ~last.stat.cred
    /\ Len(last.res.value) = 2
    /\ last.res.value[1].name = "All The Mods 9"
    /\ last.res.value[2].name = "Enigmatica 6"
    /\ last.res.value[2].authors = <<"Community">>

\* The body of a response carries no item: "data" is an empty list or absent.
NoItems(body) ==
    \/ body.shape = "missing"
    \/ (body.shape = "list" /\ body.items = <<>>)

\* C19: with a credential and an open session, a search that upstream
\* answers successfully with zero items returns the empty sequence, by the
\* direct path, and does not raise.
C19_ZeroMatchesReturnEmpty ==
    ( /\ last.call.op = "search"
      /\ last.stat.cred
      /\ last.stat.answer.kind = "response"
      /\ last.stat.answer.status < 400
      /\ NoItems(last.stat.answer.body) ) =>
        /\ last.res = Return(<<>>)
        /\ last.stat.path = "direct"

\* The search for "Kitchen" answered 200 with {"data": []}.
C19_Witness ==
    /\ last.call = SearchCall("Kitchen", None, 1)
    /\ last.stat.cred
    /\ last.stat.answer.kind = "response"
    /\ last.stat.answer.status = 200
    /\ last.stat.answer.body = ListBody(<<>>)
    /\ last.res = Return(<<>>)

\* The files of a body that _parse_modpack_version accepts.
Parseable(body) ==
    {i \in 1..Len(body.items) : VersionParseError(body.items[i]) = ""}

\* C20: what get_modpack_versions returns is ordered by file date, newest
\* first, whatever the order of the upstream files: no record is followed by
\* a later one, and the records are those of the upstream files that parse.
C20_VersionsNewestFirst ==
    (last.call.op = "versions" /\ last.res.kind = "return") =>
        /\ \A i, j \in 1..Len(last.res.value) :
              i < j => ~Later(last.res.value[j].file_date, last.res.value[i].file_date)
        /\ ( /\ last.stat.answer.kind = "response"
             /\ last.stat.answer.body.shape = "list" ) =>
                /\ Len(last.res.value) = Cardinality(Parseable(last.stat.answer.body))
                /\ {last.res.value[i].id : i \in 1..Len(last.res.value)}
                     = {last.stat.answer.body.items[i].id :
                           i \in Parseable(last.stat.answer.body)}

\* Files dated 2024-01-01, 2024-01-15 and 2024-02-01, delivered oldest
\* first, come back newest first.
C20_Witness ==
    /\ last.call.op = "versions"
    /\ last.stat.answer.kind = "response"
    /\ last.stat.answer.body = ListBody(<<FileOld, FileMid, FileNew>>)
    /\ last.res.kind = "return"
    /\ Len(last.res.value) = 3
    /\ last.res.value[1].id = FileNew.id
    /\ last.res.value[2].id = FileMid.id
    /\ last.res.value[3].id = FileOld.id

\* Some item of the body cannot be normalised by the operation's parser.
SomeMalformed(op, body) ==
    \E i \in 1..Len(body.items) :
        IF op = "search" THEN SearchParseError(body.items[i]) # ""
        ELSE VersionParseError(body.items[i]) # ""

\* The normalisations of the well-formed items of the body, in upstream order.
WellFormedSearch(body) ==
    LET good == SelectSeq(body.items, LAMBDA x : SearchParseError(x) = "")
    IN  [i \in 1..Len(good) |-> _parse_modpack_search_result(good[i])]
WellFormedVersions(body) ==
    {_parse_modpack_version(body.items[i]) : i \in Parseable(body)}

\* C21, as the specification states it: when some items of a successful
\* upstream list cannot be normalised, search (here without category filter)
\* and get_modpack_versions do not raise, and return exactly the
\* normalisations of the well-formed items.
C21_MalformedRecordSkipped ==
    ( /\ last.call.op \in {"search", "versions"}
      /\ last.call.op = "search" => (last.stat.cred /\ last.call.category_filter = None)
      /\ last.stat.answer.kind = "response"
      /\ last.stat.answer.status < 400
      /\ last.stat.answer.body.shape = "list"
      /\ SomeMalformed(last.call.op, last.stat.answer.body) ) =>
        /\ last.res.kind = "return"
        /\ last.call.op = "search" =>
              /\ last.stat.path = "direct"
              /\ last.res.value = WellFormedSearch(last.stat.answer.body)
        /\ last.call.op = "versions" =>
              /\ Len(last.res.value) = Cardinality(Parseable(last.stat.answer.body))
              /\ {last.res.value[i] : i \in 1..Len(last.res.value)}
                    = WellFormedVersions(last.stat.answer.body)

\* get_modpack_versions answered with [null, file]: the whole call raises.
C21_Witness ==
    /\ last.call.op = "versions"
    /\ last.stat.answer.kind = "response"
    /\ last.stat.answer.status = 200
    /\ last.stat.answer.body = ListBody(<<NullItem, FileOld>>)
    /\ last.res = Raise("ModpackServiceError", "AttributeError")

(***************************************************************************)
(* SpecParse: the three normalisers applied to raw upstream records that   *)
(* hold any subset of their optional fields.                               *)
(***************************************************************************)
\* The records of test_data_parsing, every field present.
FullModData ==
    [id |-> 123456, name |-> "Test Modpack", summary |-> "A test modpack",
     downloadCount |-> 50000,
     categories |-> <<[name |-> "Technology"], [name |-> "Adventure"]>>,
     authors |-> <<[name |-> "TestAuthor"]>>,
     logo |-> [url |-> "https://example.com/logo.png"],
     dateModified |-> "2024-01-15T10:30:00Z",
     description |-> "Detailed description",
     screenshots |-> <<[url |-> "https://example.com/screenshot1.png"]>>,
     latestFilesIndexes |-> <<[gameVersion |-> "1.19.2", modLoader |-> "Forge"]>>]
FullFileData ==
    [id |-> 789012, displayName |-> "Test Modpack v1.0.0",
     fileName |-> "test-modpack-1.0.0.zip", fileDate |-> "2024-01-15T10:30:00Z",
     downloadUrl |-> "https://example.com/download",
     gameVersions |-> <<"1.19.2", "1.20.1">>, modLoader |-> "Forge",
     fileLength |-> 1024000]

Parsers ==
    {"_parse_modpack_search_result", "_parse_modpack_details", "_parse_modpack_version"}

\* The fields a parser reads with d[k], and those it reads with d.get(k).
RequiredFields(f) ==
    IF f = "_parse_modpack_version" THEN {"id", "displayName", "fileName", "fileDate"}
    ELSE {"id", "name"}
OptionalFields(f) ==
    IF f = "_parse_modpack_version"
    THEN {"downloadUrl", "gameVersions", "modLoader", "fileLength"}
    ELSE {"summary", "downloadCount", "categories", "authors", "logo", "dateModified"}
         \cup IF f = "_parse_modpack_details"
              THEN {"description", "screenshots", "latestFilesIndexes"}
              ELSE {}

\* The raw records given to a parser: the required fields with every subset
\* of the optional ones, and one record that lacks a required field.
RawRecords(f) ==
    LET full == IF f = "_parse_modpack_version" THEN FullFileData ELSE FullModData IN
    {[k \in RequiredFields(f) \cup opt |-> full[k]] : opt \in SUBSET OptionalFields(f)}
    \cup {[k \in {"id"} |-> full[k]]}

InitParse ==
    /\ fn \in Parsers
    /\ arg \in RawRecords(fn)
    /\ out = NoOut
    /\ now = 0
    /\ LimiterUnused
    /\ CacheUnused
    /\ KeyUnused
    /\ MigrationsUnused
    /\ ServiceUnused

Ended(exc, value) == [done |-> TRUE, exc |-> exc, value |-> value]

ParseSearchResult ==
    /\ fn = "_parse_modpack_search_result"
    /\ ~out.done
    /\ out' = IF SearchParseError(arg) # "" THEN Ended(SearchParseError(arg), <<>>)
              ELSE Ended("", _parse_modpack_search_result(arg))
    /\ UNCHANGED <<fn, arg, now, limiterVars, taskVars, histVars, cacheVars, keyVars, migVars, svcVars>>

ParseDetails ==
    /\ fn = "_parse_modpack_details"
    /\ ~out.done
    /\ out' = IF DetailsParseError(arg) # "" THEN Ended(DetailsParseError(arg), <<>>)
              ELSE Ended("", _parse_modpack_details(arg))
    /\ UNCHANGED <<fn, arg, now, limiterVars, taskVars, histVars, cacheVars, keyVars, migVars, svcVars>>

ParseVersion ==
    /\ fn = "_parse_modpack_version"
    /\ ~out.done
    /\ out' = IF VersionParseError(arg) # "" THEN Ended(VersionParseError(arg), <<>>)
              ELSE Ended("", _parse_modpack_version(arg))
    /\ UNCHANGED <<fn, arg, now, limiterVars, taskVars, histVars, cacheVars, keyVars, migVars, svcVars>>

NextParse == ParseSearchResult \/ ParseDetails \/ ParseVersion

SpecParse == InitParse /\ [][NextParse]_vars

\* Field of the normalised record |-> <<the optional raw field it is read
\* from, its value when that raw field is missing>>.
MissingDefaults(f) ==
    IF f = "_parse_modpack_version"
    THEN [download_url |-> <<"downloadUrl", "">>,
          game_versions |-> <<"gameVersions", <<>>>>,
          mod_loader |-> <<"modLoader", None>>,
          file_size |-> <<"fileLength", 0>>]
    ELSE IF f = "_parse_modpack_search_result"
    THEN [summary |-> <<"summary", "">>,
          download_count |-> <<"downloadCount", 0>>,
          categories |-> <<"categories", <<>>>>,
          authors |-> <<"authors", <<>>>>,
          logo_url |-> <<"logo", None>>,
          last_updated |-> <<"dateModified", NoDate>>]
    ELSE [summary |-> <<"summary", "">>,
          download_count |-> <<"downloadCount", 0>>,
          categories |-> <<"categories", <<>>>>,
          authors |-> <<"authors", <<>>>>,
          logo_url |-> <<"logo", None>>,
          last_updated |-> <<"dateModified", NoDate>>,
          description |-> <<"description", "">>,
          screenshots |-> <<"screenshots", <<>>>>,
          game_version_latest |-> <<"latestFilesIndexes", None>>,
          mod_loader |-> <<"latestFilesIndexes", None>>]

HasRequired == RequiredFields(fn) \subseteq DOMAIN arg

\* The value is an empty sequence or null.  Values are compared within the
\* type of their field: a count is an integer, which is neither.
TextFields == {"summary", "description", "download_url", "logo_url",
               "game_version_latest", "mod_loader"}
ListFields == {"categories", "authors", "screenshots", "game_versions"}
EmptyOrNull(field, v) ==
    IF field \in TextFields THEN v \in {"", None}
    ELSE IF field \in ListFields THEN v = <<>>
    ELSE IF field = "last_updated" THEN v = NoDate
    ELSE FALSE

\* C22, as the specification states it: on a raw record that has its
\* required fields normalisation succeeds, and every missing optional field
\* is mapped to an empty sequence or to null.
C22_MissingMapsToEmptyOrNull ==
    (out.done /\ HasRequired) =>
        /\ out.exc = ""
        /\ \A t \in DOMAIN MissingDefaults(fn) :
              MissingDefaults(fn)[t][1] \notin DOMAIN arg => EmptyOrNull(t, out.value[t])

\* C22, amended: on a raw record that has its required fields normalisation
\* succeeds whichever optional fields are missing; a missing optional field
\* is mapped to the empty string or list, to null, or, for the download
\* count and the file size, to 0.
C22_MissingOptionalDefaults ==
    (out.done /\ HasRequired) =>
        /\ out.exc = ""
        /\ \A t \in DOMAIN MissingDefaults(fn) :
              MissingDefaults(fn)[t][1] \notin DOMAIN arg =>
                  out.value[t] = MissingDefaults(fn)[t][2]

\* A file record with only its required fields has been normalised.
C22_Witness ==
    /\ fn = "_parse_modpack_version"
    /\ DOMAIN arg = RequiredFields(fn)
    /\ out.done
    /\ out.exc = ""
    /\ out.value.mod_loader = None
    /\ out.value.game_versions = <<>>
    /\ out.value.file_size = 0

\* Some category name of the result equals the filter, letter case apart.
InCategory(modpack, category_filter) ==
    \E i \in 1..Len(modpack.categories) :
        lower(modpack.categories[i]) = lower(category_filter)

\* The names of the request parameters a search sends upstream.
SearchParamNames ==
    {"gameId", "categoryId", "sortField", "sortOrder", "pageSize", "index", "searchFilter"}

\* C23, as the specification states it: every result of a search that was
\* given a category_filter has a category name equal to the filter, letter
\* case apart, and the filter is no request parameter, so that it is no part
\* of the cache key.
C23_CategoryFilterApplied ==
    ( /\ last.call.op = "search"
      /\ last.call.category_filter \notin {None, ""}
      /\ last.res.kind = "return" ) =>
        /\ \A j \in 1..Len(last.res.value) :
              InCategory(last.res.value[j], last.call.category_filter)
        /\ \A i \in 1..Len(Params(last.call)) :
              /\ Params(last.call)[i][1] \in SearchParamNames
              /\ Params(last.call)[i][2] # StrVal(last.call.category_filter)
        /\ CacheKeyOf[last.call] = CacheKeyOf[SearchCall("Kitchen", None, 1)]

\* Without a credential the search for "Kitchen" in the category "tech"
\* returns a catalog entry whose only category is its difficulty.
C23_Witness ==
    /\ last.call = SearchCall("Kitchen", "tech", 1)
    /\ ~last.stat.cred
    /\ last.stat.path = "fallback"
    /\ Len(last.res.value) = 1
    /\ last.res.value[1].name = "All The Mods 9"
    /\ ~InCategory(last.res.value[1], "tech")

\* C24, as the specification states it: the session is not used after it
\* was released: no public operation calls self.client.get or
\* self.client.head on a session that __aexit__ has closed.
C24_NoUseAfterTeardown == last.stat.sess # "closed"

\* After __aexit__, get_modpack_details(7) passes the guard of _make_request,
\* is admitted by the rate limiter and calls get on the closed session, which
\* sends nothing and raises.
C24_Witness ==
    /\ client = "closed"
    /\ last.call = DetailsCall(7)
    /\ last.stat.sess = "closed"
    /\ last.stat.nadm = 1
    /\ last.stat.nreq = 0
    /\ last.res = Raise("ModpackServiceError", "RuntimeError")

\* C25: nothing is retried.  A search, a details or a versions call sends
\* at most one request and records at most one admission with the rate
\* limiter (none of either when it is served from the cache), so the limiter
\* never holds more admissions than operations were begun; and a failed
\* search sends nothing more: it returns the entries of the in-memory catalog.
C25_NothingRetried ==
    /\ Len(requests) <= ncalls
    /\ last.call.op \in PipelineOps =>
          /\ last.stat.nreq <= 1
          /\ last.stat.nadm <= 1
          /\ last.stat.nreq <= last.stat.nadm
          /\ last.stat.hit => (last.stat.nreq = 0 /\ last.stat.nadm = 0)
          /\ (last.call.op = "search" /\ last.stat.cred /\ last.stat.err # "") =>
                last.res = Return(FallbackResultsOf[last.call])

\* Upstream answers 500 to a search: one request, one admission, then the
\* fallback entries.
C25_Witness ==
    /\ last.call = SearchCall("Kitchen", None, 1)
    /\ last.stat.cred
    /\ last.stat.answer.status = 500
    /\ last.stat.nreq = 1
    /\ last.stat.nadm = 1
    /\ Len(requests) = 1
    /\ last.stat.path = "fallback"
    /\ last.res = Return(FallbackResultsOf[last.call])

ZeroStats == [total_entries |-> 0, active_entries |-> 0, expired_entries |-> 0]

\* The keys whose payload a lookup would return now.
Retrievable == {k \in DOMAIN cache : _get_cached_data(cache, k, now) # NoData}

StatsConsistent ==
    LET stats == get_cache_stats(cache, now) IN
    /\ stats.total_entries = stats.active_entries + stats.expired_entries
    /\ stats.total_entries >= 0
    /\ stats.active_entries >= 0
    /\ stats.expired_entries >= 0
    /\ stats.active_entries = Cardinality(Retrievable)
    /\ out.done => out.value = stats

\* A step of get_cache_stats leaves the cache as it is, expired entries
\* included; a step that empties the cache leaves statistics of 0.
StatsStep ==
    /\ (out'.done /\ ~out.done) => cache' = cache
    /\ (cache' = EmptyCache /\ cache # EmptyCache) => get_cache_stats(cache', now') = ZeroStats

\* C28: in every cache state the statistics satisfy total_entries =
\* active_entries + expired_entries, none of them negative; get_cache_stats
\* does not modify the cache (expired entries are counted, not evicted); and
\* right after clear_cache the three numbers are 0.
C28_CacheStats == []StatsConsistent /\ [][StatsStep]_vars

\* get_cache_stats has just counted one expired and one active entry, and
\* both are still in the cache.
C28_Witness ==
    /\ out.done
    /\ out.value = [total_entries |-> 2, active_entries |-> 1, expired_entries |-> 1]
    /\ Cardinality(DOMAIN cache) = 2
    /\ \E k \in DOMAIN cache : is_expired(cache[k], now)

\* C26, as the specification states it: on a client opened without a
\* credential, when a search has just been repeated, the second call returns
\* as many results as the first (without a credential both are the fallback
\* entries of the call) and get_cache_stats reports active_entries > 0.
C26_RepeatedSearchIsCached ==
    ( /\ last.call.op = "search"
      /\ ~last.stat.cred
      /\ last.stat.prev = "same"
      /\ client = "open" ) =>
        /\ last.res.kind = "return"
        /\ Len(last.res.value) = Len(FallbackResultsOf[last.call])
        /\ get_cache_stats(cache, now).active_entries > 0

\* The same search twice on an open client without a credential: equal
\* results, and an empty cache.
C26_Witness ==
    /\ api_key = None
    /\ client = "open"
    /\ ncalls = 2
    /\ last.call = SearchCall("Kitchen", None, 1)
    /\ last.stat.prev = "same"
    /\ Len(last.res.value) = 1
    /\ cache = EmptyCache
    /\ get_cache_stats(cache, now) = ZeroStats

\* C27: create_custom_modpack returns a source exactly when client.head is
\* answered with a status below 400, whatever the extension of the file
\* name; it raises ModpackServiceError and returns nothing when the answer
\* has a status from 400 on or the transport fails.  The source carries the
\* URL that answered, the file name (of Content-Disposition, else the last
\* segment of the URL given) and the source type "url".
C27_CustomSourceCreation ==
    last.call.op = "create" =>
        LET a == last.stat.answer IN
        /\ last.res.kind = "return" <=> (a.kind = "response" /\ a.status < 400)
        /\ (a.kind = "error" \/ (a.kind = "response" /\ a.status >= 400)) =>
              (last.res.kind = "raise" /\ last.res.exc = "ModpackServiceError")
        /\ last.res.kind = "return" =>
              /\ Len(last.res.value) = 1
              /\ last.res.value[1].name = last.call.name
              /\ last.res.value[1].download_url = a.body.items[2].url
              /\ last.res.value[1].file_name =
                    (IF "content-disposition" \in DOMAIN a.body.items[1]
                     THEN "real.zip" ELSE "pack.txt")
              /\ last.res.value[1].source_type = "url"

\* The probe of http://h/pack.txt is answered 200 without headers: the
\* source is created with the file name pack.txt and the final URL.
C27_Witness ==
    /\ last.call = CreateCall("My Pack", "http://h/pack.txt")
    /\ last.stat.answer.kind = "response"
    /\ last.stat.answer.status = 200
    /\ last.stat.answer.body.items[1] = EmptyObject
    /\ last.res.kind = "return"
    /\ last.res.value[1].file_name = "pack.txt"
    /\ last.res.value[1].download_url = "http://cdn/final.zip"
    /\ last.res.value[1].source_type = "url"

(***************************************************************************)
(* SpecServer: ServerInstance.validate of backend/models/server.py over    *)
(* server records around the limits it tests.  A column that holds an int  *)
(* is IntCol(n); NotInt is a value of another type (None).                    *)
(***************************************************************************)
NAME_MAX == 255
VERSION_MAX == 50
PORT_MIN == 1024
PORT_MAX == 65535
PASSWORD_MIN == 8

IntCol(n) == [int |-> TRUE, val |-> n]
NotInt == [int |-> FALSE, val |-> 0]

\* ch * n
RECURSIVE Repeat(_, _)
Repeat(ch, n) ==
    IF n <= 0 THEN ""
    ELSE LET half == Repeat(ch, n \div 2)
         IN  half \o half \o (IF n % 2 = 1 THEN ch ELSE "")

\* s.strip()
IsSpace(ch) == ch \in {" ", "\t", "\n"}
RECURSIVE LStrip(_)
LStrip(s) ==
    IF s # "" /\ IsSpace(At(s, 1)) THEN LStrip(SubSeq(s, 2, Len(s))) ELSE s
RECURSIVE RStrip(_)
RStrip(s) ==
    IF s # "" /\ IsSpace(At(s, Len(s))) THEN RStrip(SubSeq(s, 1, Len(s) - 1)) ELSE s
strip(s) == RStrip(LStrip(s))

\* not s, for s a str or None
Falsy(s) == s = None \/ s = ""

\* if cond: errors.append(message)
ErrorIf(cond, message) == IF cond THEN <<message>> ELSE <<>>

NameErrors(name) ==
    IF Falsy(name) \/ Len(strip(name)) = 0 THEN <<"Server name cannot be empty">>
    ELSE IF Len(name) > NAME_MAX THEN <<"Server name cannot exceed 255 characters">>
    ELSE <<>>

VersionErrors(modpack_version) ==
    IF Falsy(modpack_version) \/ Len(strip(modpack_version)) = 0
    THEN <<"Modpack version cannot be empty">>
    ELSE IF Len(modpack_version) > VERSION_MAX
    THEN <<"Modpack version cannot exceed 50 characters">>
    ELSE <<>>

PortOutOfRangeMutant(p) == ~p.int \/ ~(PORT_MIN < p.val /\ p.val <= PORT_MAX)
PortOutOfRange(p) == ~p.int \/ ~(PORT_MIN <= p.val /\ p.val <= PORT_MAX)

\* ServerInstance.validate
validate(self) ==
    NameErrors(self.name)
    \o ErrorIf(~self.modpack_id.int \/ self.modpack_id.val <= 0,
               "Modpack ID must be a positive integer")
    \o VersionErrors(self.modpack_version)
    \o ErrorIf(PortOutOfRange(self.port), "Server port must be between 1024 and 65535")
    \o ErrorIf(PortOutOfRange(self.rcon_port), "RCON port must be between 1024 and 65535")
    \o ErrorIf(self.port = self.rcon_port, "Server port and RCON port cannot be the same")
    \o ErrorIf(Falsy(self.rcon_password) \/ Len(self.rcon_password) < PASSWORD_MIN,
               "RCON password must be at least 8 characters long")

\* The values of the columns: those of test_server_instance and those on
\* either side of each limit.
ServerNames == {None, "", "  \t", "Test Server", Repeat("n", NAME_MAX), Repeat("n", NAME_MAX + 1)}
ServerIds == {NotInt, IntCol(-1), IntCol(0), IntCol(1), IntCol(12345)}
ServerVersions ==
    {None, "", " ", "1.0.0", Repeat("v", VERSION_MAX), Repeat("v", VERSION_MAX + 1)}
ServerPorts ==
    {NotInt, IntCol(80), IntCol(PORT_MIN - 1), IntCol(PORT_MIN), IntCol(25565), IntCol(25575),
     IntCol(PORT_MAX), IntCol(PORT_MAX + 1)}
ServerPasswords ==
    {None, "", "short", Repeat("p", PASSWORD_MIN - 1), Repeat("p", PASSWORD_MIN),
     "testpassword123"}

InitServer ==
    /\ fn = "validate"
    /\ arg \in [name : ServerNames, modpack_id : ServerIds,
                modpack_version : ServerVersions, port : ServerPorts,
                rcon_port : ServerPorts, rcon_password : ServerPasswords]
    /\ out = NoOut
    /\ now = 0
    /\ LimiterUnused
    /\ CacheUnused
    /\ KeyUnused
    /\ MigrationsUnused
    /\ ServiceUnused

\* errors = server.validate()
Validate ==
    /\ fn = "validate"
    /\ ~out.done
    /\ out' = Ended("", validate(arg))
    /\ UNCHANGED <<fn, arg, now, limiterVars, taskVars, histVars, cacheVars, keyVars, migVars, svcVars>>

NextServer == Validate

SpecServer == InitServer /\ [][NextServer]_vars

\* The seven rules, stated on the record.
NonBlank(s) == s # None /\ \E i \in 1..Len(s) : ~IsSpace(At(s, i))
InPortRange(p) == p.int /\ p.val >= 1024 /\ p.val <= 65535
RulesViolated(self) ==
    {r \in 1..7 :
        ~ CASE r = 1 -> NonBlank(self.name) /\ Len(self.name) <= 255
            [] r = 2 -> self.modpack_id.int /\ self.modpack_id.val > 0
            [] r = 3 -> NonBlank(self.modpack_version) /\ Len(self.modpack_version) <= 50
            [] r = 4 -> InPortRange(self.port)
            [] r = 5 -> InPortRange(self.rcon_port)
            [] r = 6 -> self.port # self.rcon_port
            [] r = 7 -> self.rcon_password # None /\ Len(self.rcon_password) >= 8}

\* C29: validate returns the empty list exactly when the name is non-blank
\* and of at most 255 characters, modpack_id is a positive integer,
\* modpack_version is non-blank and of at most 50 characters, port and
\* rcon_port are integers in [1024, 65535] and differ, and the RCON password
\* has at least 8 characters; each violated rule adds exactly one message, so
\* that a record violating the seven rules gets 7 errors.
C29_ServerValidate ==
    out.done =>
        /\ out.value = <<>> <=> RulesViolated(arg) = {}
        /\ Len(out.value) = Cardinality(RulesViolated(arg))
        /\ \A i, j \in 1..Len(out.value) : i # j => out.value[i] # out.value[j]

\* The invalid server of test_server_instance has been validated: 7 errors.
C29_Witness ==
    /\ out.done
    /\ arg = [name |-> "", modpack_id |-> IntCol(-1), modpack_version |-> "",
              port |-> IntCol(80), rcon_port |-> IntCol(80), rcon_password |-> "short"]
    /\ Len(out.value) = 7

\* Upstream answered the search successfully, with no item.
ZeroResults ==
    /\ last.call.op = "search"
    /\ last.stat.cred
    /\ last.stat.answer.kind = "response"
    /\ last.stat.answer.status < 400
    /\ NoItems(last.stat.answer.body)

\* C30, as the specification states it: with a credential, a search for
\* which upstream returns zero results ends as one for which upstream is
\* unreachable: by the fallback path, with the fallback entries of the call.
C30_ZeroResultsFallBack ==
    ZeroResults =>
        /\ last.stat.path = "fallback"
        /\ last.res = Return(FallbackResultsOf[last.call])

\* C30, amended: with a credential, a search for which upstream is
\* unreachable ends by the fallback path with the fallback entries of the
\* call, and a search for which upstream returns zero results does not: it
\* ends by the direct path with the empty sequence.
C30_ZeroResultsStayDirect ==
    (last.call.op = "search" /\ last.stat.cred) =>
        /\ Unreachable(last.stat.answer) =>
              /\ last.stat.path = "fallback"
              /\ last.res = Return(FallbackResultsOf[last.call])
        /\ ZeroResults =>
              /\ last.stat.path = "direct"
              /\ last.stat.err = ""
              /\ last.res = Return(<<>>)

\* The search for every pack is answered 200 with a body that has no
\* "data": nothing is returned, though the catalog holds five entries.
C30_Witness ==
    /\ last.call = SearchCall("", None, 60)
    /\ ZeroResults
    /\ last.stat.answer.body = MissingBody
    /\ last.stat.path = "direct"
    /\ last.res = Return(<<>>)
    /\ Len(FallbackResultsOf[last.call]) = 5


(***************************************************************************)
(* The limiter's recorded sequence between and after acquire() calls       *)
(***************************************************************************)
\* C31: at every observation point (between acquire() calls and right after
\* an acquire() that suspended included) self.requests holds only
\* timestamps less than window_seconds older than the current time.
C31_OnlyRecentTimestamps ==
    \A i \in 1..Len(requests) : now - requests[i] < window_seconds

\* A limiter of one request a second: after an admission at 0 the second
\* call, made at 0, sleeps one second and returns at 1 having appended the
\* time it read before the sleep; both recorded timestamps are a full
\* window old.
C31_Witness ==
    /\ max_requests = 1 /\ window_seconds = 1
    /\ Len(hist) = 2
    /\ hist[2].wait = 1 /\ hist[2].admitted /\ hist[2].admit = 1
    /\ now = 1
    /\ pc = [t \in Tasks |-> "idle"]
    /\ requests = <<0, 0>>


(***************************************************************************)
(* SpecLimiterFair: RateLimiter.acquire with time passing and the event    *)
(* loop resuming every sleeper whose asyncio.sleep is over.  time.time()   *)
(* is the wall clock, which the system may set back (an NTP step, a manual *)
(* change); asyncio.sleep counts on the loop's monotonic clock, so the     *)
(* time left to sleep is counted down in the sleeper's frame.              *)
(***************************************************************************)
FairMaxTime == 2    \* acquire() is called up to this wall-clock time
FairMaxCalls == 3   \* acquire() calls per behaviour

Sleeping(t) == pc[t] = "sleep" /\ frame[t].wait_time > 0

\* One second passes: time.time() advances and every asyncio.sleep in
\* progress has one second less to go.
ClockTick ==
    /\ now < FairMaxTime \/ \E t \in Tasks : Sleeping(t)
    /\ now' = now + 1
    /\ frame' = [t \in Tasks |->
                   IF Sleeping(t)
                   THEN [frame[t] EXCEPT !.wait_time = @ - 1]
                   ELSE frame[t]]
    /\ UNCHANGED <<limiterVars, pc, histVars, cacheVars, keyVars, migVars, pureVars, svcVars>>

\* The wall clock is set back by one second.
ClockSetBack ==
    /\ now > 0
    /\ now' = now - 1
    /\ UNCHANGED <<limiterVars, taskVars, histVars, cacheVars, keyVars, migVars, pureVars, svcVars>>

\* asyncio.sleep(wait_time) is over: self.requests.append(now) with the
\* value of now read before the sleep, and acquire() returns.
SleepOver(t) ==
    /\ pc[t] = "sleep"
    /\ frame[t].wait_time = 0
    /\ requests' = Admit(requests, frame[t].acq_now)
    /\ hist' = [hist EXCEPT ![frame[t].h].admitted = TRUE,
                            ![frame[t].h].admit = now,
                            ![frame[t].h].len = Len(requests) + 1]
    /\ pc' = [pc EXCEPT ![t] = "idle"]
    /\ frame' = [frame EXCEPT ![t] = NoFrame]
    /\ UNCHANGED <<now, max_requests, window_seconds, overlapped, cacheVars, keyVars, migVars, pureVars, svcVars>>

NextLimiterFair ==
    \/ \E t \in Tasks :
           Len(hist) < FairMaxCalls /\ now <= FairMaxTime /\ Acquire(t)
    \/ \E t \in Tasks : SleepOver(t)
    \/ ClockTick
    \/ ClockSetBack

\* Time passes, and the event loop resumes a coroutine whose sleep is over.
SpecLimiterFair ==
    /\ InitLimiter
    /\ [][NextLimiterFair]_vars
    /\ WF_vars(ClockTick)
    /\ \A t \in Tasks : WF_vars(SleepOver(t))

\* Every suspension asked for lasts more than zero and at most
\* window_seconds seconds (wait is 0 for a call that did not suspend).
SuspensionBounded ==
    \A i \in 1..Len(hist) : hist[i].wait >= 0 /\ hist[i].wait <= window_seconds

\* A step in which call i returns records exactly one timestamp, that
\* call's: the list is the former one (pruned, when the call did not
\* suspend) with one entry appended.
Returns(i) ==
    /\ i <= Len(hist') /\ hist'[i].admitted
    /\ i > Len(hist) \/ ~hist[i].admitted
RecordsOnce ==
    \A i \in 1..FairMaxCalls :
        Returns(i) =>
            \/ requests' = Append(requests, hist'[i].start)
            \/ requests' = Append(Prune(requests, now, window_seconds), hist'[i].start)

\* A call suspends at most once: a call that has returned is never
\* suspended again, and a suspended call's duration is fixed.
SuspendsOnce ==
    \A i \in 1..Len(hist) :
        /\ hist'[i].wait = hist[i].wait
        /\ hist[i].admitted => hist'[i].admitted

\* C33: every acquire() call eventually returns and records exactly one
\* admission; it suspends at most once, for a duration d with
\* 0 < d <= window_seconds, also while other callers acquire.
C33_AcquireReturnsOnce ==
    /\ []SuspensionBounded
    /\ [][RecordsOnce /\ SuspendsOnce]_vars
    /\ \A t \in Tasks : (pc[t] = "sleep") ~> (pc[t] = "idle")

\* What holds of acquire() whatever the wall clock does: it returns, and
\* records one admission, after one suspension of more than zero seconds.
AcquireReturns ==
    /\ [](\A i \in 1..Len(hist) : hist[i].wait >= 0)
    /\ [][RecordsOnce /\ SuspendsOnce]_vars
    /\ \A t \in Tasks : (pc[t] = "sleep") ~> (pc[t] = "idle")

\* A limiter of one request a second: a call is admitted at 1, the wall
\* clock is set back to 0, and the next call is told to sleep two seconds,
\* twice the window; it has returned.
C33_Witness ==
    /\ max_requests = 1 /\ window_seconds = 1
    /\ Len(hist) = 2
    /\ hist[1].start = 1 /\ hist[1].wait = 0
    /\ hist[2].start = 0 /\ hist[2].wait = 2 /\ hist[2].admitted


(***************************************************************************)
(* The cache under concurrent calls.  _get_cached_data and _cache_data     *)
(* contain no await, so each runs to its end once a coroutine has entered  *)
(* it; the calls interleave at acquire() and at self.client.get, between   *)
(* the lookup and the put of one call.                                     *)
(***************************************************************************)
\* Every entry in the cache is the last put made for its key: its payload
\* gives the result that put's call returned, and it expires CACHE_TTL
\* after that put.
CachedIsLastPut ==
    \A k \in DOMAIN cache :
        /\ k \in DOMAIN lastStore
        /\ cache[k].expires_at = lastStore[k].at + CACHE_TTL
        /\ OperationEndOf[lastStore[k].call][Returned(cache[k].data)].res
               = lastStore[k].res

\* A put is in the cache until its TTL has elapsed (clear_cache forgets the
\* puts made before it).
NoPutLost ==
    \A k \in DOMAIN lastStore :
        k \notin DOMAIN cache => now > lastStore[k].at + CACHE_TTL

\* A step removes an entry only when it has expired, clear_cache apart.
EvictsOnlyExpired ==
    \A k \in DOMAIN cache :
        k \notin DOMAIN cache' =>
            \/ now > cache[k].expires_at
            \/ cache' = EmptyCache /\ lastStore' = EmptyStore

\* C32: under any interleaving of concurrent calls on one client no put is
\* lost, a lookup never evicts an unexpired entry, and each key holds the
\* payload of the last put made for it.
C32_CacheStepsAtomic ==
    /\ [](CachedIsLastPut /\ NoPutLost)
    /\ [][EvictsOnlyExpired]_vars

\* Two identical details calls in flight together: both missed, the answer
\* of the second has been stored, and the first is still awaiting
\* self.client.get, about to store under the same key.
C32_Witness ==
    /\ ncalls = 2
    /\ pc[1] = "http" /\ call[1] = DetailsCall(7)
    /\ ~frame[1].st.expect.some
    /\ pc[2] = "idle" /\ last.task = 2 /\ last.call = DetailsCall(7)
    /\ last.stat.nreq = 1 /\ ~last.stat.hit
    /\ CacheKeyOf[DetailsCall(7)] \in DOMAIN cache
    /\ cache[CacheKeyOf[DetailsCall(7)]].data = ObjectBody(ItemTech)


(***************************************************************************)
(* SpecRequestKey: two requests through the cache of _make_request, one    *)
(* after the other on a client with an open session.  The first is         *)
(* answered by upstream and stored under its key; the second looks its     *)
(* own key up.  The search term and the sort field are the caller's.       *)
(***************************************************************************)
KeyTerms == {"", "a", "a&sortField=b"}
KeySortFields == {"Popularity", "c", "b&sortField=c"}
KeyCalls ==
    {[SearchCall(term, None, 20) EXCEPT !.sort_field = field] :
        term \in KeyTerms, field \in KeySortFields}
    \cup {DetailsCall(7), DetailsCall(8), VersionsCall(7, None), VersionsCall(7, "1.20")}

\* What is sent upstream for a call: self.client.get(endpoint, params=params)
Request(c) == [endpoint |-> Endpoint(c), params |-> Params(c)]

InitRequestKey ==
    /\ fn = "_make_request"
    /\ arg \in KeyCalls \X KeyCalls
    /\ out = NoOut
    /\ now = 0
    /\ LimiterUnused
    /\ CacheUnused
    /\ KeyUnused
    /\ MigrationsUnused
    /\ ServiceUnused

\* The first request misses, is answered 200 and its response is stored.
RequestStore ==
    /\ cache = EmptyCache
    /\ cache' = _cache_data(cache, _get_cache_key(Endpoint(arg[1]), Params(arg[1])),
                            ListBody(<<ItemPlain>>), CACHE_TTL, now)
    /\ UNCHANGED <<pureVars, now, limiterVars, taskVars, histVars, putlog, got, keyVars, migVars, svcVars>>

\* The second request looks its key up: the cached payload, or NoData.
RequestLookup ==
    /\ cache # EmptyCache
    /\ ~out.done
    /\ LET cache_key == _get_cache_key(Endpoint(arg[2]), Params(arg[2])) IN
       /\ out' = Ended("", <<_get_cached_data(cache, cache_key, now)>>)
       /\ cache' = CacheAfterGet(cache, cache_key, now)
    /\ UNCHANGED <<fn, arg, now, limiterVars, taskVars, histVars, putlog, got, keyVars, migVars, svcVars>>

NextRequestKey == RequestStore \/ RequestLookup

SpecRequestKey == InitRequestKey /\ [][NextRequestKey]_vars

CacheHit == out.done /\ out.value[1] # NoData

\* C34: two requests that differ in endpoint or in a parameter name or
\* value have different cache keys, so a cache hit returns the response to
\* an identical request.
C34_CacheKeysInjective ==
    /\ Request(arg[1]) # Request(arg[2]) =>
           _get_cache_key(Endpoint(arg[1]), Params(arg[1]))
               # _get_cache_key(Endpoint(arg[2]), Params(arg[2]))
    /\ CacheHit => Request(arg[1]) = Request(arg[2])

\* search_modpacks("a", sort_field="b&sortField=c") is answered by upstream;
\* search_modpacks("a&sortField=b", sort_field="c") is then served that
\* response from the cache.
C34_Witness ==
    /\ arg[1] = [SearchCall("a", None, 20) EXCEPT !.sort_field = "b&sortField=c"]
    /\ arg[2] = [SearchCall("a&sortField=b", None, 20) EXCEPT !.sort_field = "c"]
    /\ CacheHit
    /\ out.value[1] = ListBody(<<ItemPlain>>)


(***************************************************************************)
(* Errors and the cache                                                    *)
(***************************************************************************)
\* A get_modpack_details or get_modpack_versions call ends in this step
\* with an error, on a client whose session is open.
LookupFails ==
    /\ last' # last
    /\ last'.call.op \in Lookups
    /\ last'.res.kind = "raise"
    /\ client = "open"

\* C35, as the specification states it: on a client with an open session,
\* every get_modpack_details or get_modpack_versions call that ends in an
\* error, not-found included, sent an upstream request during that call.
C35_ErrorsNeverFromCache ==
    [][LookupFails => (last'.stat.nreq = 1 /\ ~last'.stat.hit)]_vars

\* C35, amended: an error of the request pipeline (transport failure, status
\* from 400 on) is never stored, so a call that ends in one sent an upstream
\* request during that call; a response with a status below 400 is stored
\* whatever its payload, and until its TTL has elapsed an identical call
\* raises from the cache, without an upstream request, the error that
\* payload gives (not-found for an empty data payload).
C35_PipelineErrorsNeverFromCache ==
    [][LookupFails =>
          IF last'.stat.hit
          THEN /\ last'.stat.nreq = 0
               /\ last'.stat.pipe = ""
               /\ CacheKeyOf[last'.call] \in DOMAIN lastStore
               /\ lastStore[CacheKeyOf[last'.call]].res = last'.res
               /\ lastStore[CacheKeyOf[last'.call]].path = "direct"
               /\ now <= lastStore[CacheKeyOf[last'.call]].at + CACHE_TTL
          ELSE /\ last'.stat.nreq = 1
               /\ last'.stat.pipe # "" => cache' = cache]_vars

\* get_modpack_details(7) is answered {"data": {}} and raises not-found; the
\* same call made again raises not-found from the cache.
C35_Witness ==
    /\ client = "open"
    /\ last.call = DetailsCall(7)
    /\ last.stat.hit /\ last.stat.nreq = 0
    /\ last.stat.prev = "same"
    /\ last.res = Raise("ModpackNotFoundError", "")
    /\ cache[CacheKeyOf[DetailsCall(7)]].data = ObjectBody(EmptyObject)


(***************************************************************************)
(* The Direct/Fallback decision                                            *)
(***************************************************************************)
\* A search ends in this step.
SearchEnds == last' # last /\ last'.call.op = "search"

\* The operation that ended last is a search with a credential whose direct
\* attempt failed and which was answered from the fallback set, and no
\* other call is in flight.
AfterFailedSearch ==
    /\ last.call.op = "search"
    /\ last.stat.cred
    /\ last.stat.path = "fallback"
    /\ last.stat.err # ""
    /\ \A t \in Tasks : pc[t] = "idle"

\* A search is called in this step.
SearchBegins ==
    /\ ncalls' = ncalls + 1
    /\ \/ \E t \in Tasks : pc'[t] # "idle" /\ call'[t].op = "search"
       \/ SearchEnds

\* The step ran the direct pipeline: the cache was looked up and either
\* served the call, or one admission was recorded and the request sent.
RanDirectPipeline ==
    \/ SearchEnds /\ last'.stat.hit
    \/ /\ requests' = Append(Prune(requests, now, window_seconds), now)
       /\ \E t \in Tasks :
              /\ pc'[t] = "http"
              /\ frame'[t].st.nadm = 1
              /\ frame'[t].st.nreq = 1

\* C36: the Direct/Fallback decision is taken per call from the presence of
\* the credential alone and is not latched: the search that follows a
\* failed direct search answered from the fallback set runs the direct
\* pipeline again, and the credential never changes.
C36_DecisionPerCall ==
    [][/\ api_key' = api_key
       /\ SearchEnds =>
              /\ last'.stat.cred = (api_key # None)
              /\ ~last'.stat.cred =>
                     /\ last'.stat.path = "fallback" /\ last'.stat.err = ""
                     /\ last'.stat.nreq = 0 /\ last'.stat.nadm = 0
              /\ (last'.stat.cred /\ last'.stat.path = "fallback") =>
                     last'.stat.err # ""
       /\ (AfterFailedSearch /\ SearchBegins /\ client = "open") =>
              RanDirectPipeline]_vars

\* A search with a credential was answered 404 and returned fallback
\* entries; the same task has called search again and awaits upstream.
C36_Witness ==
    /\ ncalls = 2
    /\ client = "open"
    /\ last.task = 1 /\ last.call.op = "search" /\ last.stat.cred
    /\ last.stat.answer.status = 404 /\ last.stat.path = "fallback"
    /\ pc[1] = "http" /\ call[1] = last.call
    /\ frame[1].st.nreq = 1
    /\ pc[2] = "idle"


InitSession ==
    /\ now = 0
    /\ api_key \in {None, "", "key"}
    /\ client = "None"
    /\ cache = EmptyCache
    /\ max_requests = SERVICE_MAX_REQUESTS
    /\ window_seconds = SERVICE_WINDOW
    /\ requests = <<>>
    /\ pc = [t \in Tasks |-> "idle"]
    /\ frame = [t \in Tasks |-> NoFrame]
    /\ call = [t \in Tasks |-> NoCall]
    /\ last = NoLast
    /\ lastStore = EmptyStore
    /\ ncalls = 0
    /\ hist = <<>> /\ overlapped = FALSE
    /\ putlog = EmptyCache /\ got = NoGot
    /\ KeyUnused
    /\ MigrationsUnused
    /\ PureUnused

SpecSession == InitSession /\ [][NextAnswers]_vars

\* The names of the headers __aenter__ creates the session with, which the
\* session sends with every request: x-api-key is set "if self.api_key".
SessionHeaders ==
    {"Accept", "User-Agent"}
        \cup (IF api_key # None /\ api_key # "" THEN {"x-api-key"} ELSE {})

\* A request is with upstream: a task awaits self.client.get or
\* self.client.head.
RequestInFlight == \E t \in Tasks : pc[t] \in {"http", "head"}

\* C38: the session sends the API-key header with every upstream request
\* when the client is in Direct state (is_api_available), and only then.
C38_ApiKeyHeaderIffDirect ==
    RequestInFlight => (("x-api-key" \in SessionHeaders) <=> is_api_available)

\* ModpackService(api_key=""): a search takes the direct path and its
\* request is with upstream, sent without the x-api-key header.
C38_Witness ==
    /\ api_key = ""
    /\ is_api_available
    /\ client = "open"
    /\ \E t \in Tasks :
          /\ pc[t] = "http"
          /\ call[t].op = "search"
          /\ frame[t].st.cred
          /\ frame[t].st.nreq = 1
    /\ "x-api-key" \notin SessionHeaders


(***************************************************************************)
(* MigrationManager (backend/migrations.py).  A migration is its version   *)
(* and whether its up() and its down() raise; the table schema_migrations  *)
(* is the set of the versions it holds (version is its primary key).       *)
(* SpecMigrations: migrations are registered, under distinct versions of   *)
(* the zero-padded form of the module's own "001", and migrate_up and      *)
(* migrate_down are run, on a database whose table holds any of the        *)
(* versions when the process starts.                                       *)
(***************************************************************************)
MigMaxVersions == 2   \* the versions are "001" .. "002"

Version(i) == "00" \o ToString(i)
MigVersions == {Version(i) : i \in 1..MigMaxVersions}

\* Migration(version, description) with up() and down() overridden
Migration(version, up_raises, down_raises) ==
    [version |-> version, up_raises |-> up_raises, down_raises |-> down_raises]

\* The migrations the model registers: up() and down() both work, or one
\* of them raises.
Migrations ==
    {Migration(v, FALSE, FALSE) : v \in MigVersions}
    \cup {Migration(v, TRUE, FALSE) : v \in MigVersions}
    \cup {Migration(v, FALSE, TRUE) : v \in MigVersions}

\* self.migrations.sort(key=lambda m: m.version): a stable sort, by
\* insertion into the sorted prefix.
RECURSIVE InsertByVersion(_, _)
InsertByVersion(m, sorted) ==
    IF Len(sorted) = 0 THEN <<m>>
    ELSE IF StrLess(m.version, sorted[1].version) THEN <<m>> \o sorted
    ELSE <<sorted[1]>> \o InsertByVersion(m, Tail(sorted))

RECURSIVE SortedByVersionFrom(_, _)
SortedByVersionFrom(ms, acc) ==
    IF Len(ms) = 0 THEN acc
    ELSE SortedByVersionFrom(Tail(ms), InsertByVersion(ms[1], acc))

SortedByVersionMutant(ms) == ms
SortedByVersion(ms) == SortedByVersionFrom(ms, <<>>)

\* SELECT version FROM schema_migrations ORDER BY version
RECURSIVE get_applied_migrations(_)
get_applied_migrations(table) ==
    IF table = {} THEN <<>>
    ELSE LET first == CHOOSE v \in table : \A w \in table \ {v} : StrLess(v, w)
         IN  <<first>> \o get_applied_migrations(table \ {first})

\* [m for m in self.migrations if m.version not in applied]
get_pending_migrations(ms, table) ==
    SelectSeq(ms, LAMBDA m : m.version \notin table)

\* apply_migration: up(), then the INSERT, which the primary key refuses for
\* a version the table holds; an exception of either rolls the transaction
\* back and gives False.
apply_migration(m, table) ==
    IF m.up_raises \/ m.version \in table
    THEN [ok |-> FALSE, table |-> table]
    ELSE [ok |-> TRUE, table |-> table \cup {m.version}]

\* rollback_migration: down(), then the DELETE.
rollback_migrationMutant(m, table) ==
    IF m.down_raises
    THEN [ok |-> FALSE, table |-> table]
    ELSE [ok |-> TRUE, table |-> table]
rollback_migration(m, table) ==
    IF m.down_raises
    THEN [ok |-> FALSE, table |-> table]
    ELSE [ok |-> TRUE, table |-> table \ {m.version}]

\* A call of up() or down() made by a run, and whether it raised.
Called(m, raised) == [version |-> m.version, raised |-> raised]

\* for migration in pending: if not self.apply_migration(migration): return False
RECURSIVE ApplyEach(_, _, _)
ApplyEach(pending, table, calls) ==
    IF Len(pending) = 0 THEN [ret |-> TRUE, table |-> table, calls |-> calls]
    ELSE LET m == pending[1]
             end == apply_migration(m, table)
         IN  IF ~end.ok
             THEN [ret |-> FALSE, table |-> table,
                   calls |-> Append(calls, Called(m, m.up_raises))]
             ELSE ApplyEach(Tail(pending), end.table, Append(calls, Called(m, FALSE)))

\* migrate_up: what it returns, the table it leaves, the up() calls it made.
migrate_up(ms, table) == ApplyEach(get_pending_migrations(ms, table), table, <<>>)

\* reversed(applied)
Reversed(s) == [i \in 1..Len(s) |-> s[Len(s) + 1 - i]]

\* The loop of migrate_down that collects the migrations to roll back, over
\* the applied versions from the newest on: it stops at the target, and an
\* applied version that no registered migration has is passed over.
RECURSIVE ToRollback(_, _, _)
ToRollback(versions, target_version, ms) ==
    IF Len(versions) = 0 THEN <<>>
    ELSE IF target_version # None /\ target_version # "" /\ versions[1] = target_version
    THEN <<>>
    ELSE LET found == SelectSeq(ms, LAMBDA m : m.version = versions[1]) IN
         (IF Len(found) = 0 THEN <<>> ELSE <<found[1]>>)
             \o ToRollback(Tail(versions), target_version, ms)

\* for migration in to_rollback: if not self.rollback_migration(migration): return False
RECURSIVE RollbackEach(_, _, _)
RollbackEach(to_rollback, table, calls) ==
    IF Len(to_rollback) = 0 THEN [ret |-> TRUE, table |-> table, calls |-> calls]
    ELSE LET m == to_rollback[1]
             end == rollback_migration(m, table)
         IN  IF ~end.ok
             THEN [ret |-> FALSE, table |-> table,
                   calls |-> Append(calls, Called(m, TRUE))]
             ELSE RollbackEach(Tail(to_rollback), end.table, Append(calls, Called(m, FALSE)))

\* migrate_down(target_version)
migrate_down(ms, table, target_version) ==
    RollbackEach(ToRollback(Reversed(get_applied_migrations(table)), target_version, ms),
                 table, <<>>)

\* MigrationManager() in a process that starts on a database whose table
\* holds the versions applied before.
InitMigrations ==
    /\ migrations = <<>>
    /\ schema_migrations \in SUBSET MigVersions
    /\ mig_last = NoRun
    /\ now = 0
    /\ LimiterUnused
    /\ CacheUnused
    /\ KeyUnused
    /\ PureUnused
    /\ ServiceUnused

Registered == {migrations[i].version : i \in 1..Len(migrations)}

\* register_migration(migration)
register_migration(migration) ==
    /\ migration.version \notin Registered
    /\ migrations' = SortedByVersion(Append(migrations, migration))
    /\ UNCHANGED <<schema_migrations, mig_last, now, limiterVars, taskVars, histVars,
                   cacheVars, keyVars, pureVars, svcVars>>

\* migrate_up()
MigrateUp ==
    /\ LET run == migrate_up(migrations, schema_migrations) IN
       /\ schema_migrations' = run.table
       /\ mig_last' = [op |-> "up", target |-> None, ret |-> run.ret,
                       calls |-> run.calls, before |-> schema_migrations,
                       registered |-> Len(migrations)]
    /\ UNCHANGED <<migrations, now, limiterVars, taskVars, histVars, cacheVars, keyVars,
                   pureVars, svcVars>>

\* The targets given to migrate_down: none, the empty string, a version.
Targets == {None, ""} \cup MigVersions

\* migrate_down(target_version)
MigrateDown(target_version) ==
    /\ LET run == migrate_down(migrations, schema_migrations, target_version) IN
       /\ schema_migrations' = run.table
       /\ mig_last' = [op |-> "down", target |-> target_version, ret |-> run.ret,
                       calls |-> run.calls, before |-> schema_migrations,
                       registered |-> Len(migrations)]
    /\ UNCHANGED <<migrations, now, limiterVars, taskVars, histVars, cacheVars, keyVars,
                   pureVars, svcVars>>

NextMigrations ==
    \/ \E migration \in Migrations : register_migration(migration)
    \/ MigrateUp
    \/ \E target_version \in Targets : MigrateDown(target_version)

SpecMigrations == InitMigrations /\ [][NextMigrations]_vars


(***************************************************************************)
(* Properties of migrate_up and migrate_down                               *)
(***************************************************************************)
\* migrate_up runs in this step.
UpRuns == migrations' = migrations /\ mig_last' # mig_last /\ mig_last'.op = "up"

\* The registered versions the table does not hold, before the step.
PendingVersions == Registered \ schema_migrations

\* The versions whose up() or down() the run called, and those that raised.
CalledVersions(run) == {run.calls[i].version : i \in 1..Len(run.calls)}
RaisedVersions(run) ==
    {run.calls[i].version : i \in {j \in 1..Len(run.calls) : run.calls[j].raised}}

\* The calls of the run are in ascending order of version.
Ascending(run) ==
    \A i, j \in 1..Len(run.calls) :
        i < j => StrLess(run.calls[i].version, run.calls[j].version)

\* C39: migrate_up calls up() for the pending migrations in ascending order
\* of version, records a version only after its up() succeeded, stops at
\* the first failure returning False with that migration and all later ones
\* unrecorded, and run again after a fully successful run applies nothing
\* and returns True.
C39_MigrateUp ==
    [][UpRuns =>
          LET run == mig_last' IN
          /\ Ascending(run)
          /\ CalledVersions(run) \subseteq PendingVersions
          /\ \A v \in CalledVersions(run) : \A w \in PendingVersions :
                 StrLess(w, v) => w \in CalledVersions(run) \ RaisedVersions(run)
          /\ schema_migrations' =
                 schema_migrations \cup (CalledVersions(run) \ RaisedVersions(run))
          /\ run.ret = (RaisedVersions(run) = {})
          /\ run.ret => PendingVersions \subseteq schema_migrations'
          /\ \A v \in RaisedVersions(run) :
                 /\ v = run.calls[Len(run.calls)].version
                 /\ \A w \in PendingVersions :
                        (w = v \/ StrLess(v, w)) => w \notin schema_migrations'
          /\ (mig_last.op = "up" /\ mig_last.ret
                 /\ mig_last.registered = Len(migrations)) =>
                 /\ run.calls = <<>> /\ run.ret
                 /\ schema_migrations' = schema_migrations]_vars

\* "001" and "002" are registered and the up() of "001" raises: migrate_up
\* on an empty table has called the up() of "001" alone and returned False,
\* with "001" and "002" not recorded.
C39_Witness ==
    /\ Registered = {"001", "002"}
    /\ mig_last.op = "up" /\ mig_last.before = {}
    /\ ~mig_last.ret
    /\ mig_last.calls = << [version |-> "001", raised |-> TRUE] >>
    /\ schema_migrations = {}


\* migrate_down runs in this step.
DownRuns == migrations' = migrations /\ mig_last' # mig_last /\ mig_last'.op = "down"

\* The calls of the run are in descending order of version.
Descending(run) ==
    \A i, j \in 1..Len(run.calls) :
        i < j => StrLess(run.calls[j].version, run.calls[i].version)

\* C40: migrate_down(target_version) rolls applied migrations back in
\* descending order of version and stops before the target: when it returns
\* True, the target and every older version are still recorded and no
\* version newer than the target is; with no target, every applied
\* migration is rolled back.
C40_MigrateDown ==
    [][DownRuns =>
          LET run == mig_last' IN
          /\ Descending(run)
          /\ CalledVersions(run) \subseteq schema_migrations
          /\ (run.ret /\ run.target \in MigVersions) =>
                 /\ run.target \in schema_migrations'
                 /\ \A v \in schema_migrations :
                        StrLess(v, run.target) => v \in schema_migrations'
                 /\ \A v \in schema_migrations' : ~StrLess(run.target, v)
          /\ (run.ret /\ run.target = None) => schema_migrations' = {}]_vars

\* "001" is registered and applied; migrate_down("002"), a version that was
\* never applied, has rolled "001" back and returned True.
C40_Witness ==
    /\ Registered = {"001"}
    /\ mig_last.op = "down" /\ mig_last.target = "002"
    /\ mig_last.before = {"001"}
    /\ mig_last.ret
    /\ mig_last.calls = << [version |-> "001", raised |-> FALSE] >>
    /\ schema_migrations = {}

\* What holds of every migrate_down run: down() is called, in descending
\* order, for the registered versions among the applied ones that are
\* newer than the target, or for all of them when the target is not
\* applied or not given; the table loses exactly the versions whose down()
\* returned, and the run returns False exactly when a down() raised.
MigrateDownRollsBack ==
    [][DownRuns =>
          LET run == mig_last'
              stops == run.target \in schema_migrations
              wanted == {v \in schema_migrations \cap Registered :
                            stops => StrLess(run.target, v)}
          IN  /\ Descending(run)
              /\ CalledVersions(run) \subseteq wanted
              /\ schema_migrations' =
                     schema_migrations \ (CalledVersions(run) \ RaisedVersions(run))
              /\ run.ret = (RaisedVersions(run) = {})
              /\ run.ret => CalledVersions(run) = wanted]_vars

====
